---- MODULE Spec2Model ----
(***************************************************************************)
(* LNURL server (lnurl-server): the challenge / session lifecycle.         *)
(*                                                                         *)
(* The server is one Node.js process.  A request handler runs without      *)
(* interruption between two `await`s; at an `await` (a store operation or   *)
(* a call to the Lightning node) other handlers and timers may run.  Each   *)
(* action below is one such uninterrupted segment of a handler, together    *)
(* with the store operation or node answer that ends its `await`.          *)
(***************************************************************************)
EXTENDS Integers, Sequences, FiniteSets, TLC

(***************************************************************************)
(* Bounds of the model.                                                    *)
(***************************************************************************)
\* withdraw callbacks that are ever issued (each may be in flight with the others)
MaxWithdrawCallbacks == 2
\* auth verify calls that are ever issued (each may be in flight with the others)
MaxVerifyCalls == 2
\* steps of the clock
MaxTicks == 2
\* logout handlers of one session that wait for the store at the same time
MaxLogouts == 1
\* channel callbacks that are ever issued (each may be in flight with the others)
MaxChannelCallbacks == 2
\* pay callbacks that are ever issued: the payment records that can exist
MaxPayCallbacks == 2
\* calls of the payment status endpoint that are ever issued
MaxStatusCalls == 1
\* reconciler passes that are counted
MaxPasses == 2
\* Lightning-Address resolutions that are ever issued
MaxResolves == 3
\* calls of BackgroundJobs.start()
MaxStarts == 2
\* channel requests (GET /channel) that are ever issued
MaxGenerates == 2

(***************************************************************************)
(* config.limits                                                           *)
(***************************************************************************)
minWithdrawable == 1000
maxWithdrawable == 100000000
minSendable == 1000
maxSendable == 1000000000
commentAllowed == 255

(***************************************************************************)
(* config.auth (milliseconds)                                              *)
(***************************************************************************)
k1Expiry == 300000
sessionExpiry == 3600000

(***************************************************************************)
(* Request parameters.  A query string is an opaque text; what the server  *)
(* looks at is its length and whether it is made of hexadecimal digits.    *)
(***************************************************************************)
\* the k1 values crypto.randomBytes(32).toString('hex') can return
WithdrawK1s == {"w1", "w2"}
\* the k1 value crypto.randomBytes(32).toString('hex') returns for the auth
\* challenge, and another 64 hex characters that name no challenge
AuthK1s == {"a1"}
OtherK1 == "a2"
\* compressed public keys (66 hex characters); "keyX" is 66 hex characters
\* that are no point of the curve
Keys == {"keyA", "keyB"}
\* k1 query values that are not 64 hex characters: too short, not hex, too long
MalformedK1s == {"k1short", "k1nothex", "k1long"}
\* the k1 value Validation.generateK1() returns for the channel request, and
\* another 64 hex characters that name no channel request
ChannelK1s == {"c1"}
OtherChannelK1 == "c2"
\* the k1 values Validation.generateK1() returns for channel requests whose
\* answer waits for the node's URI
GenerateK1s == {"c1", "c3"}
\* remoteid query values: two node public keys (02/03 and 64 hex characters)
\* and a text that is none
RemoteIds == {"nodeA", "nodeB"}

StrLen(s) ==
    CASE s \in WithdrawK1s -> 64
      [] s \in AuthK1s \cup {OtherK1} -> 64
      [] s \in Keys \cup {"keyX"} -> 66
      [] s \in ChannelK1s \cup {OtherChannelK1} \cup GenerateK1s -> 64
      [] s = "k1short"     -> 63
      [] s = "k1nothex"    -> 64
      [] s = "k1long"      -> 65
      [] s = "c200"        -> 200
      [] s = "c300"        -> 300
      [] OTHER             -> 0

IsHex(s) ==
    CASE s \in WithdrawK1s -> TRUE
      [] s \in AuthK1s \cup {OtherK1} -> TRUE
      [] s \in Keys \cup {"keyX"} -> TRUE
      [] s \in ChannelK1s \cup {OtherChannelK1} \cup GenerateK1s -> TRUE
      [] s = "k1short"     -> TRUE
      [] s = "k1nothex"    -> FALSE
      [] s = "k1long"      -> TRUE
      [] OTHER             -> FALSE

\* Mutant: the pattern does not fix the length.
isValidK1_AnyLength(k1) == IsHex(k1)

\* Validation.isValidK1: /^[a-fA-F0-9]{64}$/
isValidK1(k1) == IsHex(k1) /\ StrLen(k1) = 64

\* Invoices a caller may present, named by the amount (sat) the node decodes
\* them to; "notaninvoice" does not match /^ln(bc|tb|rt)[a-zA-Z0-9]+$/.
Invoices == {"lnbc0", "lnbc500", "lnbc5000", "lnbc200000"}
PaymentRequests == Invoices \cup {"notaninvoice"}

\* Validation.validateHexString: hex digits only, of the expected length when
\* one is given (0: none)
validateHexString(hex, expectedLength) ==
    IsHex(hex) /\ (expectedLength # 0 => StrLen(hex) = expectedLength)

\* Signatures a caller may present.  A signature is hex text; it either is the
\* DER encoding of a signature made with the secret of `signer` over the
\* bytes `msg`, or is no DER encoding at all.
NoSig == [der |-> FALSE, signer |-> "none", msg |-> "none"]
Sign(key, msg) == [der |-> TRUE, signer |-> key, msg |-> msg]

\* secp256k1.signatureImport succeeds
signatureImport(sig) == sig.der

\* secp256k1.ecdsaVerify(compactSig, k1Bytes, keyBytes)
ecdsaVerify(sig, k1, key) == sig.signer = key /\ sig.msg = k1

\* the actions GET /auth accepts
validActions == {"register", "login", "link", "auth"}
\* the action parameters of the model's callers ("" : none given)
ActionParams == {"", "link", "bogus"}

\* Validation.isValidPaymentRequest
isValidPaymentRequest(pr) == pr \in Invoices

\* num_satoshis of the node's answer to GET /v1/payreq/<pr>
num_satoshis(pr) ==
    CASE pr = "lnbc0"      -> 0
      [] pr = "lnbc500"    -> 500
      [] pr = "lnbc5000"   -> 5000
      [] pr = "lnbc200000" -> 200000
      [] OTHER             -> 0

\* Validation.isAmountInRange: parseInt(amount) >= min && <= max
isAmountInRange(amount, min, max) == amount >= min /\ amount <= max

\* amount query values of the pay callback and what parseInt makes of them;
\* "abc" parses to NaN
Amounts == {"0", "500", "1000", "1999", "2000", "abc"}
IsNaN(amount) == amount \notin {"-1000", "0", "500", "1000", "1999", "2000"}
parseInt(amount) ==
    CASE amount = "0" -> 0
      [] amount = "-1000" -> 0 - 1000
      [] amount = "500" -> 500
      [] amount = "1000" -> 1000
      [] amount = "1999" -> 1999
      [] amount = "2000" -> 2000

\* Validation.isValidAmount: parseInt(amount) is a number greater than 0
isValidAmount(amount) == ~IsNaN(amount) /\ parseInt(amount) > 0

\* comment query values of the pay callback: none, a text of 200 characters,
\* a text of 300 characters
Comments == {"", "c200", "c300"}

\* Validation.isValidComment: no comment, or a text of at most maxLength
\* characters
isValidComment(comment, maxLength) == comment = "" \/ StrLen(comment) <= maxLength

\* Validation.validatePayCallback: the list of errors.  isValidComment is
\* called without a maxLength, which then is config.limits.commentAllowed.
validatePayCallback(amount, comment) ==
    (IF ~isValidAmount(amount) THEN <<"Invalid amount parameter">> ELSE << >>)
    \o (IF comment # "" /\ ~isValidComment(comment, commentAllowed)
        THEN <<"Comment too long">> ELSE << >>)

\* Validation.isValidRemoteId: /^0[23][a-fA-F0-9]{64}$/
isValidRemoteId(remoteId) == remoteId \in RemoteIds

\* Validation.isValidBoolean of a query value
isValidBoolean(value) == value \in {"0", "1"}

\* Mutant: the remoteid is checked for a cancellation too.
validateChannelRequest_ChecksRemoteId(k1, remoteid, private, cancel) ==
    (IF ~isValidK1(k1) THEN <<"Invalid k1 parameter">> ELSE << >>)
    \o (IF ~isValidRemoteId(remoteid) THEN <<"Invalid remoteid parameter">> ELSE << >>)
    \o (IF private # "" /\ ~isValidBoolean(private)
        THEN <<"Invalid private parameter">> ELSE << >>)

\* Validation.validateChannelRequest: the list of errors
validateChannelRequest(k1, remoteid, private, cancel) ==
    IF cancel = "1"
    THEN (IF ~isValidK1(k1) THEN <<"Invalid k1 parameter">> ELSE << >>)
    ELSE (IF ~isValidK1(k1) THEN <<"Invalid k1 parameter">> ELSE << >>)
         \o (IF ~isValidRemoteId(remoteid) THEN <<"Invalid remoteid parameter">> ELSE << >>)
         \o (IF private # "" /\ ~isValidBoolean(private)
             THEN <<"Invalid private parameter">> ELSE << >>)

\* Validation.validateWithdrawCallback: the list of errors is empty
validateWithdrawCallback(k1, pr) == isValidK1(k1) /\ isValidPaymentRequest(pr)

(***************************************************************************)
(* State.                                                                  *)
(***************************************************************************)
VARIABLES
    withdrawals,    \* table withdrawals: k1 -> [used, amount_sats]
    wreq,           \* withdraw callbacks: request -> its position and outcome
    authChallenges, \* table auth_challenges: k1 -> [action, used, expires_at]
    authSessions,   \* table auth_sessions: session id -> [linking_key, action, expires_at]
    vreq,           \* auth verify calls: request -> its position and outcome
    logouts,        \* session id -> logout handlers waiting for deleteAuthSession
    cleanupPc,      \* position of the cleanup pass
    now,            \* the clock (ms)
    ticks,          \* steps the clock has made
    minted,         \* history: k1 -> expiry of every auth challenge ever created
    loggedOut,      \* history: the session ids a logout has deleted
    channelRequests,\* table channel_requests: k1 -> [remote_id, private, cancelled, completed]
    creq,           \* channel callbacks: request -> its position and outcome
    paymentConfigs, \* table payment_configs: payment id -> [min_sendable, max_sendable,
                    \* comment_allowed]
    payments,       \* table payments: id -> [payment_hash, amount_sats, paid]
    invoices,       \* the node's invoices: payment hash -> [value, settled]
    preq,           \* pay callbacks: request -> its position and outcome
    rec,            \* passes of checkSettledInvoices: pass -> its position
    sreq,           \* payment status calls: request -> its position and outcome
    reported,       \* history: the payment hashes the node has answered as settled
    passes,         \* history: the passes started, counted up to MaxPasses
    lreq,           \* Lightning-Address resolutions: request -> its outcome
    mintedAction,   \* history: k1 -> action of every auth challenge ever created
    jobs,           \* BackgroundJobs: its two handles, the armed timers, and history
    greq            \* channel requests (GET /channel): request -> its position and outcome

wvars == <<withdrawals, wreq>>
cvars == <<channelRequests, creq>>
pvars == <<paymentConfigs, payments, invoices, preq, rec, sreq, reported, passes>>
avars == <<authChallenges, authSessions, vreq, logouts, cleanupPc, now, ticks,
           minted, loggedOut>>
xvars == <<lreq, mintedAction, jobs, greq>>
vars == <<wvars, avars, cvars, pvars, xvars>>

WReqs == 1..MaxWithdrawCallbacks

IdleW == [pc |-> "idle", k1 |-> "none", pr |-> "none", called |-> FALSE,
          storeRead |-> FALSE, status |-> 0, reason |-> "none"]

\* the request has been answered
Answered(q) == q.pc = "done"

VReqs == 1..MaxVerifyCalls
\* a session id is crypto.randomBytes(16): the model names the session a verify
\* call creates by the call's number
SessionIds == VReqs

IdleV == [pc |-> "idle", k1 |-> "none", sig |-> NoSig, key |-> "none",
          action |-> "none", late |-> FALSE, sessionExp |-> 0, storeRead |-> FALSE,
          status |-> 0, reason |-> "none"]

CReqs == 1..MaxChannelCallbacks

IdleC == [pc |-> "idle", k1 |-> "none", remoteid |-> "none", private |-> "",
          cancel |-> "", pending |-> FALSE, storeRead |-> FALSE, found |-> FALSE,
          stored |-> FALSE,
          opened |-> FALSE,
          openFailed |-> FALSE, wroteTerminal |-> FALSE,
          status |-> 0, reason |-> "none"]

PReqs == 1..MaxPayCallbacks
\* a payment record's id is Validation.generateId(), the payment hash is drawn
\* by the node: the model names both by the number of the pay callback
PaymentRecordIds == PReqs

IdleP == [pc |-> "idle", paymentId |-> "none", amount |-> "none", comment |-> "",
          hadConfig |-> FALSE, created |-> FALSE,
          status |-> 0, reason |-> "none"]

\* setInterval starts a pass every config.intervals.paymentCheck ms whether or
\* not the pass before has finished: two passes may run at the same time
Passes == {1, 2}

\* a pass: its position, the rows of its list it has yet to handle, and its
\* history: the rows of its list, the payments that existed when the list was
\* made, the rows queried, those whose query failed, those the node answered as settled, those
\* whose flag the pass changed, whether an invoice was settled since the pass
\* started, and the same of the pass that ran before it
IdlePass == [pc |-> "idle", todo |-> << >>, snapshot |-> {}, listed |-> {},
             queried |-> {}, failed |-> {}, answeredSettled |-> {}, marked |-> {},
             sawSettle |-> FALSE, ran |-> FALSE,
             hasPrev |-> FALSE, prevFailed |-> FALSE, prevMarked |-> {},
             prevSawSettle |-> FALSE]

SReqs == 1..MaxStatusCalls

LReqs == 1..MaxResolves

\* a resolution: the username, the payment id it was answered with, and its
\* history: table payment_configs before and after its createPaymentConfig
NoAnswer == [status |-> 0, minSendable |-> 0, maxSendable |-> 0, commentAllowed |-> 0]

IdleL == [pc |-> "idle", username |-> "none", paymentId |-> "none",
          before |-> << >>, after |-> << >>, answer |-> NoAnswer]

IdleS == [pc |-> "idle", id |-> 0, status |-> 0, paid |-> FALSE]

\* new BackgroundJobs(): both handles null (0) and no timer armed.  A timer
\* is [id, job]; history: the calls of start(), whether stop() has returned
\* since the last of them, and the passes that had started when it did.
NewJobs == [paymentCheckInterval |-> 0, authCleanupInterval |-> 0, timers |-> {},
            starts |-> 0, stopped |-> FALSE, passesAtStop |-> 0]

\* a channel request (GET /channel): the k1 it drew, and its history: the k1s
\* of table channel_requests when it arrived
GReqs == 1..MaxGenerates

IdleG == [pc |-> "idle", k1 |-> "none", before |-> {}, status |-> 0, reason |-> "none"]

Init ==
    /\ withdrawals = << >>
    /\ wreq = [r \in WReqs |-> IdleW]
    /\ authChallenges = << >>
    /\ authSessions = << >>
    /\ vreq = [r \in VReqs |-> IdleV]
    /\ logouts = [s \in SessionIds |-> 0]
    /\ cleanupPc = "idle"
    /\ now = 0
    /\ ticks = 0
    /\ minted = << >>
    /\ loggedOut = {}
    /\ channelRequests = << >>
    /\ creq = [r \in CReqs |-> IdleC]
    /\ paymentConfigs = << >>
    /\ payments = << >>
    /\ invoices = << >>
    /\ preq = [r \in PReqs |-> IdleP]
    /\ rec = [s \in Passes |-> IdlePass]
    /\ sreq = [r \in SReqs |-> IdleS]
    /\ reported = {}
    /\ passes = 0
    /\ lreq = [r \in LReqs |-> IdleL]
    /\ mintedAction = << >>
    /\ jobs = NewJobs
    /\ greq = [g \in GReqs |-> IdleG]

(***************************************************************************)
(* database.js                                                             *)
(***************************************************************************)
\* createWithdrawal: INSERT INTO withdrawals (id, k1, amount_sats); used DEFAULT 0
createWithdrawal(tbl, k1, amountSats) ==
    [k \in DOMAIN tbl \cup {k1} |->
        IF k = k1 THEN [used |-> FALSE, amount_sats |-> amountSats] ELSE tbl[k]]

\* getWithdrawal: SELECT * FROM withdrawals WHERE k1 = ? AND used = 0
\* (TRUE when a row is returned)
getWithdrawal(tbl, k1) == k1 \in DOMAIN tbl /\ ~tbl[k1].used

\* Mutant: the statement sets the amount and not the used flag.
updateWithdrawal_AmountOnly(tbl, k1, amountSats) ==
    [k \in DOMAIN tbl |->
        IF k = k1 THEN [tbl[k] EXCEPT !.amount_sats = amountSats] ELSE tbl[k]]

\* updateWithdrawal: UPDATE withdrawals SET used = 1, amount_sats = ? WHERE k1 = ?
updateWithdrawal(tbl, k1, amountSats) ==
    [k \in DOMAIN tbl |->
        IF k = k1 THEN [used |-> TRUE, amount_sats |-> amountSats] ELSE tbl[k]]

(***************************************************************************)
(* middleware/errorHandler.js                                              *)
(***************************************************************************)
\* errorHandler: the HTTP status of an error thrown by a handler
errorHandler(name) ==
    CASE name = "ValidationError"   -> 400
      [] name = "NotFoundError"     -> 404
      [] name = "UnauthorizedError" -> 401
      [] OTHER                      -> 500

(***************************************************************************)
(* routes/withdraw.js                                                      *)
(***************************************************************************)
\* GET /withdraw: a fresh k1 is drawn and the withdrawal stored with amount 0
WithdrawRequest ==
    /\ \E k1 \in WithdrawK1s \ DOMAIN withdrawals :
          withdrawals' = createWithdrawal(withdrawals, k1, 0)
    /\ UNCHANGED <<xvars, wreq, avars, cvars, pvars>>

\* the answer of a finished callback
Reply(r, st, why) == [wreq EXCEPT ![r].pc = "done", ![r].status = st, ![r].reason = why]

\* GET /withdraw/callback, up to the answer of db.getWithdrawal: the parameters
\* are validated, the withdrawal is looked up, and decodePayReq is called.
\* Requests are numbered in the order they arrive.
WithdrawCallbackLookup(r, k1, pr) ==
    /\ wreq[r].pc = "idle"
    /\ \A q \in WReqs : q < r => wreq[q].pc # "idle"
    /\ LET w == [wreq EXCEPT ![r].k1 = k1, ![r].pr = pr] IN
       IF ~validateWithdrawCallback(k1, pr)
       THEN wreq' = [w EXCEPT ![r].pc = "done",
                              ![r].status = errorHandler("ValidationError"),
                              ![r].reason = "Invalid parameters"]
       ELSE IF ~getWithdrawal(withdrawals, k1)
       THEN wreq' = [w EXCEPT ![r].pc = "done", ![r].storeRead = TRUE,
                              ![r].status = errorHandler("ValidationError"),
                              ![r].reason = "Invalid or used k1"]
       ELSE wreq' = [w EXCEPT ![r].pc = "decode", ![r].storeRead = TRUE]
    /\ UNCHANGED <<xvars, withdrawals, avars, cvars, pvars>>

\* the node answers decodePayReq: the amount is checked against the limits and
\* payInvoice is called; an error (of the node, or the range check's) is caught
\* and rethrown as Error('Payment failed: ...')
WithdrawCallbackDecoded(r, nodeOk) ==
    /\ wreq[r].pc = "decode"
    /\ IF ~nodeOk
       THEN wreq' = Reply(r, errorHandler("Error"), "Payment failed: node")
       ELSE IF ~isAmountInRange(num_satoshis(wreq[r].pr), minWithdrawable, maxWithdrawable)
       THEN wreq' = Reply(r, errorHandler("Error"), "Payment failed: Amount out of range")
       ELSE wreq' = [wreq EXCEPT ![r].pc = "pay", ![r].called = TRUE]
    /\ UNCHANGED <<xvars, withdrawals, avars, cvars, pvars>>

\* the node answers payInvoice: on success updateWithdrawal is called
WithdrawCallbackPaid(r, nodeOk) ==
    /\ wreq[r].pc = "pay"
    /\ IF ~nodeOk
       THEN wreq' = Reply(r, errorHandler("Error"), "Payment failed: node")
       ELSE wreq' = [wreq EXCEPT ![r].pc = "update"]
    /\ UNCHANGED <<xvars, withdrawals, avars, cvars, pvars>>

\* the store runs updateWithdrawal and the handler answers {status: 'OK'}
WithdrawCallbackUpdated(r) ==
    /\ wreq[r].pc = "update"
    /\ withdrawals' = updateWithdrawal(withdrawals, wreq[r].k1, num_satoshis(wreq[r].pr))
    /\ wreq' = Reply(r, 200, "OK")
    /\ UNCHANGED <<xvars, avars, cvars, pvars>>

WithdrawNext ==
    \/ WithdrawRequest
    \/ \E r \in WReqs, k1 \in WithdrawK1s \cup MalformedK1s, pr \in PaymentRequests :
          WithdrawCallbackLookup(r, k1, pr)
    \/ \E r \in WReqs, nodeOk \in BOOLEAN : WithdrawCallbackDecoded(r, nodeOk)
    \/ \E r \in WReqs, nodeOk \in BOOLEAN : WithdrawCallbackPaid(r, nodeOk)
    \/ \E r \in WReqs : WithdrawCallbackUpdated(r)

\* The same handlers when the callbacks arrive one after the other: a callback
\* arrives only when every earlier one has been answered.
NoneInFlightW == \A q \in WReqs : wreq[q].pc \in {"idle", "done"}

WithdrawSeqNext ==
    \/ WithdrawRequest
    \/ \E r \in WReqs, k1 \in WithdrawK1s \cup MalformedK1s, pr \in PaymentRequests :
          NoneInFlightW /\ WithdrawCallbackLookup(r, k1, pr)
    \/ \E r \in WReqs, nodeOk \in BOOLEAN : WithdrawCallbackDecoded(r, nodeOk)
    \/ \E r \in WReqs, nodeOk \in BOOLEAN : WithdrawCallbackPaid(r, nodeOk)
    \/ \E r \in WReqs : WithdrawCallbackUpdated(r)

(***************************************************************************)
(* database.js, auth tables.  Timestamps are the clock's milliseconds.     *)
(***************************************************************************)
NoRow == [found |-> FALSE, action |-> "none"]

\* createAuthChallenge: a row that expires k1Expiry after its creation
createAuthChallenge(tbl, k1, action, t) ==
    [k \in DOMAIN tbl \cup {k1} |->
        IF k = k1 THEN [action |-> action, used |-> FALSE, expires_at |-> t + k1Expiry]
        ELSE tbl[k]]

\* getAuthChallenge: the row of k1 when it is unused and has not expired
getAuthChallenge(tbl, k1, t) ==
    IF k1 \in DOMAIN tbl /\ ~tbl[k1].used /\ t < tbl[k1].expires_at
    THEN [found |-> TRUE, action |-> tbl[k1].action]
    ELSE NoRow

\* useAuthChallenge: marks the row of k1 used
useAuthChallenge(tbl, k1) ==
    [k \in DOMAIN tbl |-> IF k = k1 THEN [tbl[k] EXCEPT !.used = TRUE] ELSE tbl[k]]

\* createAuthSession: a row that expires sessionExpiry after its creation
createAuthSession(tbl, sessionId, key, action, t) ==
    [s \in DOMAIN tbl \cup {sessionId} |->
        IF s = sessionId
        THEN [linking_key |-> key, action |-> action, expires_at |-> t + sessionExpiry]
        ELSE tbl[s]]

\* getAuthSession: a row is returned: the session exists and has not expired
getAuthSession(tbl, sessionId, t) ==
    sessionId \in DOMAIN tbl /\ t < tbl[sessionId].expires_at

\* deleteAuthSession
deleteAuthSession(tbl, sessionId) ==
    [s \in DOMAIN tbl \ {sessionId} |-> tbl[s]]

\* cleanupExpiredAuthChallenges, cleanupExpiredAuthSessions: the expired rows go
cleanupExpiredAuthChallenges(tbl, t) ==
    [k \in {x \in DOMAIN tbl : t < tbl[x].expires_at} |-> tbl[k]]

cleanupExpiredAuthSessions(tbl, t) ==
    [s \in {x \in DOMAIN tbl : t < tbl[x].expires_at} |-> tbl[s]]

(***************************************************************************)
(* routes/auth.js                                                          *)
(***************************************************************************)
\* GET /auth without all of k1, sig, key (and GET /auth/qr): a challenge is
\* created for the action; an unknown action is answered 400
AuthChallengeRequest(actionParam) ==
    LET challengeAction == IF actionParam = "" THEN "login" ELSE actionParam IN
    /\ IF challengeAction \notin validActions
       THEN UNCHANGED <<authChallenges, minted, mintedAction>>
       ELSE \E newK1 \in AuthK1s \ DOMAIN minted :
              /\ authChallenges' =
                    createAuthChallenge(authChallenges, newK1, challengeAction, now)
              /\ minted' = [k \in DOMAIN minted \cup {newK1} |->
                              IF k = newK1 THEN now + k1Expiry ELSE minted[k]]
              /\ mintedAction' = [k \in DOMAIN mintedAction \cup {newK1} |->
                                    IF k = newK1 THEN challengeAction
                                    ELSE mintedAction[k]]
    /\ UNCHANGED <<greq, lreq, jobs, wvars, cvars, pvars, authSessions, vreq, logouts, cleanupPc, now, ticks, loggedOut>>

\* the answer of a finished verify call
ReplyV(v, r, st, why) == [v EXCEPT ![r].pc = "done", ![r].status = st, ![r].reason = why]

\* the challenge of k1 had expired
Expired(k1) == k1 \in DOMAIN minted /\ now >= minted[k1]

\* GET /auth?k1&sig&key, the verify branch up to the call of useAuthChallenge:
\* what the checks make of call r.  The parameters are validated, the
\* challenge is loaded, the signature is imported and verified.
\* Mutant: the `if (!challenge)` answer is missing.
VerifyChecks_NoChallengeCheck(r, k1, sig, key, challenge) ==
    LET u == [vreq EXCEPT ![r].k1 = k1, ![r].sig = sig, ![r].key = key,
                          ![r].late = Expired(k1)]
        v == [u EXCEPT ![r].storeRead = TRUE]
    IN
    IF ~(validateHexString(k1, 64) /\ validateHexString(key, 66))
    THEN ReplyV(u, r, 400, "Invalid hex format for k1, sig, or key")
    ELSE IF ~signatureImport(sig)
    THEN ReplyV(v, r, 400, "Invalid DER signature")
    ELSE IF key \notin Keys
    THEN ReplyV(v, r, 400, "Signature verification failed")
    ELSE IF ~ecdsaVerify(sig, k1, key)
    THEN ReplyV(v, r, 400, "Invalid signature")
    ELSE [v EXCEPT ![r].pc = "use", ![r].action = challenge.action]

VerifyChecks(r, k1, sig, key, challenge) ==
    LET u == [vreq EXCEPT ![r].k1 = k1, ![r].sig = sig, ![r].key = key,
                          ![r].late = Expired(k1)]
        v == [u EXCEPT ![r].storeRead = TRUE]
    IN
    IF ~(validateHexString(k1, 64) /\ validateHexString(key, 66))
    THEN ReplyV(u, r, 400, "Invalid hex format for k1, sig, or key")
    ELSE IF ~challenge.found
    THEN ReplyV(v, r, 400, "Invalid or expired k1")
    ELSE IF ~signatureImport(sig)
    THEN ReplyV(v, r, 400, "Invalid DER signature")
    ELSE IF key \notin Keys
    THEN ReplyV(v, r, 400, "Signature verification failed")
    ELSE IF ~ecdsaVerify(sig, k1, key)
    THEN ReplyV(v, r, 400, "Invalid signature")
    ELSE [v EXCEPT ![r].pc = "use", ![r].action = challenge.action]

\* Mutant: the challenge is marked used as soon as it is loaded, before the
\* signature is verified.
AuthVerifyLookup_MarksFirst(r, k1, sig, key) ==
    /\ vreq[r].pc = "idle"
    /\ \A q \in VReqs : q < r => vreq[q].pc # "idle"
    /\ vreq' = VerifyChecks(r, k1, sig, key, getAuthChallenge(authChallenges, k1, now))
    /\ authChallenges' = IF getAuthChallenge(authChallenges, k1, now).found
                         THEN useAuthChallenge(authChallenges, k1)
                         ELSE authChallenges
    /\ UNCHANGED <<xvars, wvars, cvars, pvars, authSessions, logouts, cleanupPc, now,
                   ticks, minted, loggedOut>>

\* The verify branch up to the answer of getAuthChallenge and the checks that
\* follow it without an await.  Calls are numbered in the order they arrive.
AuthVerifyLookup(r, k1, sig, key) ==
    /\ vreq[r].pc = "idle"
    /\ \A q \in VReqs : q < r => vreq[q].pc # "idle"
    /\ vreq' = VerifyChecks(r, k1, sig, key, getAuthChallenge(authChallenges, k1, now))
    /\ UNCHANGED <<xvars, wvars, cvars, pvars, authChallenges, authSessions, logouts, cleanupPc, now,
                   ticks, minted, loggedOut>>

\* Mutant: the handler does not call useAuthChallenge.
AuthVerifyUsed_NoMark(r) ==
    /\ vreq[r].pc = "use"
    /\ vreq' = [vreq EXCEPT ![r].pc = "create"]
    /\ UNCHANGED <<xvars, wvars, cvars, pvars, authChallenges, authSessions, logouts, cleanupPc, now,
                   ticks, minted, loggedOut>>

\* the store runs useAuthChallenge; the handler draws a session id and calls
\* createAuthSession
AuthVerifyUsed(r) ==
    /\ vreq[r].pc = "use"
    /\ authChallenges' = useAuthChallenge(authChallenges, vreq[r].k1)
    /\ vreq' = [vreq EXCEPT ![r].pc = "create"]
    /\ UNCHANGED <<xvars, wvars, cvars, pvars, authSessions, logouts, cleanupPc, now, ticks,
                   minted, loggedOut>>

\* Mutant: the session is created for the action 'login'.
AuthVerifyCreated_LoginAction(r) ==
    /\ vreq[r].pc = "create"
    /\ authSessions' =
          createAuthSession(authSessions, r, vreq[r].key, "login", now)
    /\ vreq' = [ReplyV(vreq, r, 200, "OK") EXCEPT ![r].sessionExp = now + sessionExpiry]
    /\ UNCHANGED <<xvars, wvars, cvars, pvars, authChallenges, logouts, cleanupPc, now, ticks,
                   minted, loggedOut>>

\* the store runs createAuthSession and the handler answers {status: 'OK'}
AuthVerifyCreated(r) ==
    /\ vreq[r].pc = "create"
    /\ authSessions' =
          createAuthSession(authSessions, r, vreq[r].key, vreq[r].action, now)
    /\ vreq' = [ReplyV(vreq, r, 200, "OK") EXCEPT ![r].sessionExp = now + sessionExpiry]
    /\ UNCHANGED <<xvars, wvars, cvars, pvars, authChallenges, logouts, cleanupPc, now, ticks,
                   minted, loggedOut>>

\* history: the session was created, no logout has deleted it and its expiry
\* has not passed
Live(sessionId) ==
    /\ vreq[sessionId].sessionExp # 0
    /\ sessionId \notin loggedOut
    /\ now < vreq[sessionId].sessionExp

\* GET /auth/validate?sessionId: the status of the answer.  The handler reads
\* the store once and writes nothing.
validateStatus(sessionId) ==
    IF getAuthSession(authSessions, sessionId, now) THEN 200 ELSE 401

AuthValidate(sessionId) ==
    /\ validateStatus(sessionId) \in {200, 401}
    /\ UNCHANGED vars

\* GET /auth/status/:sessionId: the status of the answer
statusStatus(sessionId) ==
    IF getAuthSession(authSessions, sessionId, now) THEN 200 ELSE 404

AuthStatus(sessionId) ==
    /\ statusStatus(sessionId) \in {200, 404}
    /\ UNCHANGED vars

\* DELETE /auth/logout/:sessionId up to the answer of getAuthSession: the
\* status of the answer when there is no session, 0 (deleteAuthSession is
\* called, no answer yet) when there is one
logoutLookupStatus(sessionId) ==
    IF getAuthSession(authSessions, sessionId, now) THEN 0 ELSE 404

AuthLogoutLookup(sessionId) ==
    /\ logouts[sessionId] < MaxLogouts
    /\ IF logoutLookupStatus(sessionId) = 404
       THEN UNCHANGED logouts
       ELSE logouts' = [logouts EXCEPT ![sessionId] = @ + 1]
    /\ UNCHANGED <<xvars, wvars, cvars, pvars, authChallenges, authSessions, vreq, cleanupPc, now, ticks,
                   minted, loggedOut>>

\* Mutant: the handler answers OK without calling deleteAuthSession.
AuthLogoutDeleted_KeepsRow(sessionId) ==
    /\ logouts[sessionId] > 0
    /\ logouts' = [logouts EXCEPT ![sessionId] = @ - 1]
    /\ loggedOut' = loggedOut \cup {sessionId}
    /\ UNCHANGED <<xvars, wvars, cvars, pvars, authChallenges, authSessions, vreq, cleanupPc, now, ticks,
                   minted>>

\* the store runs deleteAuthSession and the handler answers {status: 'OK'}
AuthLogoutDeleted(sessionId) ==
    /\ logouts[sessionId] > 0
    /\ authSessions' = deleteAuthSession(authSessions, sessionId)
    /\ logouts' = [logouts EXCEPT ![sessionId] = @ - 1]
    /\ loggedOut' = loggedOut \cup {sessionId}
    /\ UNCHANGED <<xvars, wvars, cvars, pvars, authChallenges, vreq, cleanupPc, now, ticks, minted>>

(***************************************************************************)
(* services/backgroundJobs.js: cleanupExpiredAuth, run by the cleanup timer *)
(***************************************************************************)
\* the timer fires and the store runs cleanupExpiredAuthChallenges
CleanupChallenges ==
    /\ cleanupPc = "idle"
    /\ authChallenges' = cleanupExpiredAuthChallenges(authChallenges, now)
    /\ cleanupPc' = "sessions"
    /\ UNCHANGED <<xvars, wvars, cvars, pvars, authSessions, vreq, logouts, now, ticks, minted,
                   loggedOut>>

\* Mutant: the pass removes every session.
CleanupSessions_RemovesAll ==
    /\ cleanupPc = "sessions"
    /\ authSessions' = << >>
    /\ cleanupPc' = "idle"
    /\ UNCHANGED <<xvars, wvars, cvars, pvars, authChallenges, vreq, logouts, now, ticks, minted,
                   loggedOut>>

\* the store runs cleanupExpiredAuthSessions and the pass ends
CleanupSessions ==
    /\ cleanupPc = "sessions"
    /\ authSessions' = cleanupExpiredAuthSessions(authSessions, now)
    /\ cleanupPc' = "idle"
    /\ UNCHANGED <<xvars, wvars, cvars, pvars, authChallenges, vreq, logouts, now, ticks, minted,
                   loggedOut>>

\* time passes
Tick(d) ==
    /\ ticks < MaxTicks
    /\ now' = now + d
    /\ ticks' = ticks + 1
    /\ UNCHANGED <<xvars, wvars, cvars, pvars, authChallenges, authSessions, vreq, logouts, cleanupPc, minted, loggedOut>>

\* the parameters of the model's verify calls: a valid signature under either
\* key, a signature presented with another key than signed, a signature over
\* other bytes than k1, text that is no DER signature, a key that is no curve
\* point, a k1 that names no challenge, a k1 that is not 64 hex characters
VerifyParams ==
    { <<k1, Sign("keyA", k1), "keyA">> : k1 \in AuthK1s }
    \cup { <<k1, Sign("keyB", k1), "keyB">> : k1 \in AuthK1s }
    \cup { <<k1, Sign("keyA", k1), "keyB">> : k1 \in AuthK1s }
    \cup { <<k1, Sign("keyA", OtherK1), "keyA">> : k1 \in AuthK1s }
    \cup { <<k1, NoSig, "keyA">> : k1 \in AuthK1s }
    \cup { <<k1, Sign("keyA", k1), "keyX">> : k1 \in AuthK1s }
    \cup { <<OtherK1, Sign("keyA", OtherK1), "keyA">> }
    \cup { <<k1, Sign("keyA", k1), "keyA">> : k1 \in {"k1short", "k1nothex"} }

\* the verify calls' later steps, challenge creation, the cleanup pass, the clock
AuthBackground ==
    \/ \E a \in ActionParams : AuthChallengeRequest(a)
    \/ \E r \in VReqs : AuthVerifyUsed(r)
    \/ \E r \in VReqs : AuthVerifyCreated(r)
    \/ CleanupChallenges
    \/ CleanupSessions
    \/ Tick(k1Expiry)

\* the session endpoints
AuthSessionNext ==
    \/ \E s \in SessionIds : AuthValidate(s)
    \/ \E s \in SessionIds : AuthStatus(s)
    \/ \E s \in SessionIds : AuthLogoutLookup(s)
    \/ \E s \in SessionIds : AuthLogoutDeleted(s)

AuthNext ==
    \/ \E r \in VReqs, p \in VerifyParams : AuthVerifyLookup(r, p[1], p[2], p[3])
    \/ AuthBackground

\* The same handlers when the verify calls arrive one after the other
NoneInFlightV == \A q \in VReqs : vreq[q].pc \in {"idle", "done"}

AuthSeqNext ==
    \/ \E r \in VReqs, p \in VerifyParams :
          NoneInFlightV /\ AuthVerifyLookup(r, p[1], p[2], p[3])
    \/ AuthBackground

\* the verify calls that carry a valid signature
ValidVerifyParams ==
    {p \in VerifyParams :
        p[1] \notin MalformedK1s /\ p[3] \in Keys /\ p[2] = Sign(p[3], p[1])}

\* sessions: created by verify calls with valid signatures (one after the
\* other, for a login challenge), queried and deleted by the session endpoints,
\* swept by the cleanup pass
SessionNext ==
    \/ AuthChallengeRequest("")
    \/ \E r \in VReqs, p \in ValidVerifyParams :
          NoneInFlightV /\ AuthVerifyLookup(r, p[1], p[2], p[3])
    \/ \E r \in VReqs : AuthVerifyUsed(r)
    \/ \E r \in VReqs : AuthVerifyCreated(r)
    \/ AuthSessionNext
    \/ CleanupChallenges
    \/ CleanupSessions
    \/ \E d \in {k1Expiry, sessionExpiry} : Tick(d)

\* the auth flow, verify calls interleaved at their awaits
SpecAuth == Init /\ [][AuthNext]_vars
\* the auth flow, verify calls one after the other
SpecAuthSeq == Init /\ [][AuthSeqNext]_vars
\* the session endpoints with the verify calls that create the sessions
SpecSession == Init /\ [][SessionNext]_vars

\* the withdraw flow, callbacks interleaved at their awaits
SpecWithdraw == Init /\ [][WithdrawNext]_vars
\* the withdraw flow, callbacks one after the other
SpecWithdrawSeq == Init /\ [][WithdrawSeqNext]_vars

(***************************************************************************)
(* database.js: channel_requests                                           *)
(***************************************************************************)
\* createChannelRequest: INSERT INTO channel_requests (id, k1); remote_id NULL,
\* private, cancelled, completed DEFAULT 0
createChannelRequest(tbl, k1) ==
    [k \in DOMAIN tbl \cup {k1} |->
        IF k = k1
        THEN [remote_id |-> "none", private |-> FALSE, cancelled |-> FALSE,
              completed |-> FALSE]
        ELSE tbl[k]]

\* Mutant: the query does not look at the cancelled flag.
getChannelRequest_IgnoresCancelled(tbl, k1) ==
    k1 \in DOMAIN tbl /\ ~tbl[k1].completed

\* getChannelRequest: SELECT ... WHERE k1 = ? AND completed = 0 AND cancelled = 0
\* returns a row
getChannelRequest(tbl, k1) ==
    k1 \in DOMAIN tbl /\ ~tbl[k1].completed /\ ~tbl[k1].cancelled

\* updateChannelRequest: UPDATE channel_requests SET remote_id = ?, private = ?
\* WHERE k1 = ?
updateChannelRequest(tbl, k1, remoteId, isPrivate) ==
    [k \in DOMAIN tbl |->
        IF k = k1 THEN [tbl[k] EXCEPT !.remote_id = remoteId, !.private = isPrivate]
        ELSE tbl[k]]

\* cancelChannelRequest: UPDATE channel_requests SET cancelled = 1 WHERE k1 = ?
cancelChannelRequest(tbl, k1) ==
    [k \in DOMAIN tbl |-> IF k = k1 THEN [tbl[k] EXCEPT !.cancelled = TRUE] ELSE tbl[k]]

\* completeChannelRequest, called by the channel callback: the request of
\* this k1 becomes completed
completeChannelRequest(tbl, k1) ==
    [k \in DOMAIN tbl |-> IF k = k1 THEN [tbl[k] EXCEPT !.completed = TRUE] ELSE tbl[k]]

(***************************************************************************)
(* routes/channel.js: the channel request and its callback                 *)
(***************************************************************************)
\* GET /channel: a fresh k1 is drawn and the channel request stored
ChannelRequest ==
    /\ \E k1 \in ChannelK1s \ DOMAIN channelRequests :
          channelRequests' = createChannelRequest(channelRequests, k1)
    /\ UNCHANGED <<xvars, wvars, avars, creq, pvars>>

\* GET /channel up to the call of getNodeURI: a fresh k1 is drawn, the channel
\* request is stored, and the node is asked for its info.  Requests are
\* numbered in the order they arrive.
ChannelGenerateStored(g) ==
    /\ greq[g].pc = "idle"
    /\ \A q \in GReqs : q < g => greq[q].pc # "idle"
    /\ \E k1 \in GenerateK1s \ DOMAIN channelRequests :
          /\ channelRequests' = createChannelRequest(channelRequests, k1)
          /\ greq' = [greq EXCEPT ![g] = [IdleG EXCEPT !.pc = "uri", !.k1 = k1,
                                                       !.before = DOMAIN channelRequests]]
    /\ UNCHANGED <<lreq, mintedAction, jobs, wvars, avars, creq, pvars>>

\* the outcomes of LNDService.getNodeURI: the first of the node's uris; an
\* error of getInfo; 'No public URI available for this node'
NodeURIOutcomes == {"uri", "error", "nouri"}

\* getNodeURI returns or throws: the handler answers the channelRequest, or
\* the error goes to errorHandler
ChannelGenerateAnswered(g, outcome) ==
    /\ greq[g].pc = "uri"
    /\ greq' = [greq EXCEPT ![g].pc = "done",
                            ![g].status = IF outcome = "uri" THEN 200
                                          ELSE errorHandler("Error"),
                            ![g].reason = IF outcome = "uri" THEN "OK"
                                          ELSE IF outcome = "nouri"
                                          THEN "No public URI available for this node"
                                          ELSE "node"]
    /\ UNCHANGED <<lreq, mintedAction, jobs, wvars, avars, cvars, pvars>>

\* the answer of a finished channel callback
ReplyC(c, r, st, why) == [c EXCEPT ![r].pc = "done", ![r].status = st, ![r].reason = why]

\* validationErrors.join(', ')
JoinErrors(errors) == IF Len(errors) = 1 THEN errors[1] ELSE "Invalid parameters"

\* the request of this k1 is cancelled or completed
Terminal(k1) ==
    k1 \in DOMAIN channelRequests
    /\ (channelRequests[k1].cancelled \/ channelRequests[k1].completed)

\* GET /channel/callback up to the answer of db.getChannelRequest: the
\* parameters are validated, the request is looked up, and cancelChannelRequest
\* or updateChannelRequest is called.  Requests are numbered in the order
\* they arrive.
ChannelCallbackLookup(r, k1, remoteid, private, cancel) ==
    /\ creq[r].pc = "idle"
    /\ \A q \in CReqs : q < r => creq[q].pc # "idle"
    /\ LET c == [creq EXCEPT ![r].k1 = k1, ![r].remoteid = remoteid,
                             ![r].private = private, ![r].cancel = cancel,
                             ![r].pending = k1 \in DOMAIN channelRequests
                                            /\ ~Terminal(k1)]
           errors == validateChannelRequest(k1, remoteid, private, cancel)
       IN
       IF Len(errors) > 0
       THEN creq' = ReplyC(c, r, errorHandler("ValidationError"), JoinErrors(errors))
       ELSE IF ~getChannelRequest(channelRequests, k1)
       THEN creq' = ReplyC([c EXCEPT ![r].storeRead = TRUE], r,
                           errorHandler("ValidationError"), "Invalid or used k1")
       ELSE creq' = [c EXCEPT ![r].storeRead = TRUE, ![r].found = TRUE,
                              ![r].pc = IF cancel = "1" THEN "cancel" ELSE "update"]
    /\ UNCHANGED <<xvars, wvars, avars, channelRequests, pvars>>

\* the store runs cancelChannelRequest and the handler answers {status: 'OK'}
ChannelCallbackCancelled(r) ==
    /\ creq[r].pc = "cancel"
    /\ channelRequests' = cancelChannelRequest(channelRequests, creq[r].k1)
    /\ creq' = [ReplyC(creq, r, 200, "OK") EXCEPT
                   ![r].wroteTerminal = Terminal(creq[r].k1)
                                        /\ channelRequests' # channelRequests]
    /\ UNCHANGED <<xvars, wvars, avars, pvars>>

\* the store runs updateChannelRequest and the handler calls openChannel
ChannelCallbackUpdated(r) ==
    /\ creq[r].pc = "update"
    /\ channelRequests' = updateChannelRequest(channelRequests, creq[r].k1,
                                               creq[r].remoteid, creq[r].private = "1")
    /\ creq' = [creq EXCEPT ![r].pc = "open", ![r].stored = TRUE, ![r].opened = TRUE,
                            ![r].wroteTerminal = Terminal(creq[r].k1)
                                                 /\ channelRequests' # channelRequests]
    /\ UNCHANGED <<xvars, wvars, avars, pvars>>

\* Mutant: an error of openChannel is passed on to the error handler.
ChannelCallbackOpened_FailsCallback(r, nodeOk) ==
    /\ creq[r].pc = "open"
    /\ IF nodeOk
       THEN creq' = [creq EXCEPT ![r].pc = "complete"]
       ELSE creq' = [ReplyC(creq, r, errorHandler("Error"), "Channel opening failed")
                        EXCEPT ![r].openFailed = TRUE]
    /\ UNCHANGED <<xvars, wvars, avars, channelRequests, pvars>>

\* the node answers openChannel: on success completeChannelRequest is called;
\* an error is caught and logged, and the handler answers {status: 'OK'}
ChannelCallbackOpened(r, nodeOk) ==
    /\ creq[r].pc = "open"
    /\ IF nodeOk
       THEN creq' = [creq EXCEPT ![r].pc = "complete"]
       ELSE creq' = [ReplyC(creq, r, 200, "OK") EXCEPT ![r].openFailed = TRUE]
    /\ UNCHANGED <<xvars, wvars, avars, channelRequests, pvars>>

\* the store runs completeChannelRequest and the handler answers {status: 'OK'}
ChannelCallbackCompleted(r) ==
    /\ creq[r].pc = "complete"
    /\ channelRequests' = completeChannelRequest(channelRequests, creq[r].k1)
    /\ creq' = [ReplyC(creq, r, 200, "OK") EXCEPT
                   ![r].wroteTerminal = Terminal(creq[r].k1)
                                        /\ channelRequests' # channelRequests]
    /\ UNCHANGED <<xvars, wvars, avars, pvars>>

\* the query strings of the channel callbacks: <<k1, remoteid, private, cancel>>
ChannelParams ==
    {<<"c1", "nodeA", "", "">>, <<"c1", "nodeB", "1", "">>,
     <<"c1", "none", "", "1">>,
     <<"c1", "badid", "", "1">>, <<"c1", "nodeA", "", "1">>,
     <<"c1", "badid", "", "">>, <<"c1", "nodeA", "yes", "">>,
     <<"k1short", "nodeA", "", "">>, <<"k1long", "none", "", "1">>,
     <<OtherChannelK1, "nodeA", "", "">>}

ChannelSteps ==
    \/ ChannelRequest
    \/ \E r \in CReqs : ChannelCallbackCancelled(r)
    \/ \E r \in CReqs : ChannelCallbackUpdated(r)
    \/ \E r \in CReqs, nodeOk \in BOOLEAN : ChannelCallbackOpened(r, nodeOk)
    \/ \E r \in CReqs : ChannelCallbackCompleted(r)

ChannelNext ==
    \/ \E r \in CReqs, p \in ChannelParams :
          ChannelCallbackLookup(r, p[1], p[2], p[3], p[4])
    \/ ChannelSteps

\* The same handlers when the callbacks arrive one after the other
NoneInFlightC == \A q \in CReqs : creq[q].pc \in {"idle", "done"}

ChannelSeqNext ==
    \/ \E r \in CReqs, p \in ChannelParams :
          NoneInFlightC /\ ChannelCallbackLookup(r, p[1], p[2], p[3], p[4])
    \/ ChannelSteps

\* channel requests that wait for the node's URI, with the callbacks for the
\* k1s they drew, one after the other
GenerateNext ==
    \/ \E g \in GReqs : ChannelGenerateStored(g)
    \/ \E g \in GReqs, outcome \in NodeURIOutcomes : ChannelGenerateAnswered(g, outcome)
    \/ \E r \in CReqs, p \in ChannelParams :
          NoneInFlightC /\ ChannelCallbackLookup(r, p[1], p[2], p[3], p[4])
    \/ \E r \in CReqs : ChannelCallbackCancelled(r)
    \/ \E r \in CReqs : ChannelCallbackUpdated(r)
    \/ \E r \in CReqs, nodeOk \in BOOLEAN : ChannelCallbackOpened(r, nodeOk)
    \/ \E r \in CReqs : ChannelCallbackCompleted(r)

SpecGenerate == Init /\ [][GenerateNext]_vars

\* the channel flow, callbacks interleaved at their awaits
SpecChannel == Init /\ [][ChannelNext]_vars
\* the channel flow, callbacks one after the other
SpecChannelSeq == Init /\ [][ChannelSeqNext]_vars

(***************************************************************************)
(* database.js: payment_configs, payments                                  *)
(***************************************************************************)
\* createPaymentConfig: INSERT OR REPLACE INTO payment_configs
createPaymentConfig(tbl, paymentId, minSendableValue, maxSendableValue, commentAllowedValue) ==
    [k \in DOMAIN tbl \cup {paymentId} |->
        IF k = paymentId
        THEN [min_sendable |-> minSendableValue, max_sendable |-> maxSendableValue,
              comment_allowed |-> commentAllowedValue]
        ELSE tbl[k]]

\* createPayment: INSERT INTO payments (id, amount_sats, description,
\* payment_hash, comment); paid DEFAULT 0
createPayment(tbl, id, amountSats, paymentHash) ==
    [k \in DOMAIN tbl \cup {id} |->
        IF k = id
        THEN [amount_sats |-> amountSats, payment_hash |-> paymentHash, paid |-> FALSE]
        ELSE tbl[k]]

\* getPayment: SELECT * FROM payments WHERE id = ? returns a row
getPayment(tbl, id) == id \in DOMAIN tbl

\* Mutant: the statement clears the flag.
updatePaymentPaid_Clears(tbl, id) ==
    [k \in DOMAIN tbl |-> IF k = id THEN [tbl[k] EXCEPT !.paid = FALSE] ELSE tbl[k]]

\* updatePaymentPaid: UPDATE payments SET paid = 1 WHERE id = ?
updatePaymentPaid(tbl, id) ==
    [k \in DOMAIN tbl |-> IF k = id THEN [tbl[k] EXCEPT !.paid = TRUE] ELSE tbl[k]]

\* Mutant: the query returns the first unpaid row only.
getUnpaidPayments_FirstOnly(tbl) ==
    IF \E id \in DOMAIN tbl : ~tbl[id].paid
    THEN <<CHOOSE id \in DOMAIN tbl :
              ~tbl[id].paid /\ \A j \in DOMAIN tbl : ~tbl[j].paid => id <= j>>
    ELSE << >>

\* getUnpaidPayments: SELECT * FROM payments WHERE paid = 0, the rows in the
\* order they were inserted
RECURSIVE UnpaidFrom(_, _)
UnpaidFrom(tbl, id) ==
    IF id > MaxPayCallbacks THEN << >>
    ELSE (IF id \in DOMAIN tbl /\ ~tbl[id].paid THEN <<id>> ELSE << >>)
         \o UnpaidFrom(tbl, id + 1)

getUnpaidPayments(tbl) == UnpaidFrom(tbl, 1)

(***************************************************************************)
(* routes/generate.js, routes/pay.js: the pay request and its callback     *)
(***************************************************************************)
\* GET /generate/pay?minSendable&maxSendable&commentAllowed: a payment id is
\* drawn and the configuration stored
PayGenerate(minSendableValue, maxSendableValue, commentAllowedValue) ==
    /\ "cfg1" \notin DOMAIN paymentConfigs
    /\ paymentConfigs' = createPaymentConfig(paymentConfigs, "cfg1",
                                             minSendableValue, maxSendableValue,
                                             commentAllowedValue)
    /\ UNCHANGED <<xvars, wvars, avars, cvars, payments, invoices, preq, rec, sreq,
                   reported, passes>>

\* GET /pay/:paymentId for a payment id of hex digits: the answer of the pay
\* request, made of the row getPaymentConfig returns; 404 when there is none
PayRequest(tbl, paymentId) ==
    IF paymentId \notin DOMAIN tbl
    THEN [NoAnswer EXCEPT !.status = errorHandler("NotFoundError")]
    ELSE [status |-> 200,
          minSendable |-> tbl[paymentId].min_sendable,
          maxSendable |-> tbl[paymentId].max_sendable,
          commentAllowed |-> tbl[paymentId].comment_allowed]

\* the minSendable and maxSendable query values GET /generate/pay is called
\* with, "" for none: none; min above max; zero; negative; min below max
GenerateQueries ==
    {<<"", "">>, <<"2000", "1000">>, <<"0", "1000">>, <<"-1000", "1000">>,
     <<"1000", "2000">>}

\* value ? parseInt(value) : fallback
QueryValue(value, fallback) == IF value = "" THEN fallback ELSE parseInt(value)

\* GET /generate/pay?minSendable&maxSendable: the query values are parsed, a
\* missing one replaced by the limit of config.limits, and the configuration
\* is stored
PayGenerateFromQuery(minQuery, maxQuery) ==
    PayGenerate(QueryValue(minQuery, minSendable), QueryValue(maxQuery, maxSendable),
                commentAllowed)

\* the answer of a finished pay callback
ReplyP(c, r, st, why) == [c EXCEPT ![r].pc = "done", ![r].status = st, ![r].reason = why]

\* GET /pay/:paymentId/callback?amount&comment up to the call of
\* createInvoice: the parameters are validated.  Requests are numbered in the
\* order they arrive.
PayCallbackLookup(r, paymentId, amount, comment) ==
    /\ preq[r].pc = "idle"
    /\ \A q \in PReqs : q < r => preq[q].pc # "idle"
    /\ LET c == [preq EXCEPT ![r].paymentId = paymentId, ![r].amount = amount,
                             ![r].comment = comment,
                             ![r].hadConfig = paymentId \in DOMAIN paymentConfigs]
           errors == validatePayCallback(amount, comment)
       IN
       IF Len(errors) > 0
       THEN preq' = ReplyP(c, r, errorHandler("ValidationError"), JoinErrors(errors))
       ELSE preq' = [c EXCEPT ![r].pc = "invoice"]
    /\ UNCHANGED <<xvars, wvars, avars, cvars, paymentConfigs, payments, invoices, rec, sreq,
                   reported, passes>>

\* the node answers createInvoice: the invoice exists at the node, its payment
\* hash is extracted and createPayment is called
PayCallbackInvoiced(r, nodeOk) ==
    /\ preq[r].pc = "invoice"
    /\ IF ~nodeOk
       THEN /\ preq' = ReplyP(preq, r, errorHandler("Error"), "node")
            /\ UNCHANGED invoices
       ELSE /\ invoices' = [h \in DOMAIN invoices \cup {r} |->
                               IF h = r
                               THEN [value |-> parseInt(preq[r].amount) \div 1000,
                                     settled |-> FALSE]
                               ELSE invoices[h]]
            /\ preq' = [preq EXCEPT ![r].pc = "store", ![r].created = TRUE]
    /\ UNCHANGED <<xvars, wvars, avars, cvars, paymentConfigs, payments, rec, sreq,
                   reported, passes>>

\* Mutant: the payment is stored with the amount in millisatoshi.
PayCallbackStored_Msat(r) ==
    /\ preq[r].pc = "store"
    /\ payments' = createPayment(payments, r, parseInt(preq[r].amount), r)
    /\ preq' = ReplyP(preq, r, 200, "OK")
    /\ UNCHANGED <<xvars, wvars, avars, cvars, paymentConfigs, invoices, rec, sreq,
                   reported, passes>>

\* the store runs createPayment and the handler answers with the invoice
PayCallbackStored(r) ==
    /\ preq[r].pc = "store"
    /\ payments' = createPayment(payments, r, parseInt(preq[r].amount) \div 1000, r)
    /\ preq' = ReplyP(preq, r, 200, "OK")
    /\ UNCHANGED <<xvars, wvars, avars, cvars, paymentConfigs, invoices, rec, sreq,
                   reported, passes>>

\* the payment ids a pay callback is called with: that of the configuration,
\* and one that names none
PaymentIds == {"cfg1", "cfg2"}

\* the configurations GET /generate/pay is asked for: <<minSendable,
\* maxSendable, commentAllowed>>, the last line that of a request without
\* parameters
PayConfigs ==
    {<<1000, 1000, 100>>,
     <<minSendable, maxSendable, 300>>,
     <<minSendable, maxSendable, commentAllowed>>}

\* the pay callbacks: <<paymentId, amount, comment>>
PayParams ==
    {<<"cfg1", amount, "">> : amount \in Amounts}
    \cup {<<paymentId, "1000", "">> : paymentId \in PaymentIds}
    \cup {<<"cfg1", "1000", comment>> : comment \in Comments}
    \cup {<<"cfg1", "abc", "c300">>}

PayNext ==
    \/ \E c \in PayConfigs : PayGenerate(c[1], c[2], c[3])
    \/ \E q \in GenerateQueries : PayGenerateFromQuery(q[1], q[2])
    \/ \E r \in PReqs, p \in PayParams : PayCallbackLookup(r, p[1], p[2], p[3])
    \/ \E r \in PReqs, nodeOk \in BOOLEAN : PayCallbackInvoiced(r, nodeOk)
    \/ \E r \in PReqs : PayCallbackStored(r)

\* the pay flow
SpecPay == Init /\ [][PayNext]_vars

(***************************************************************************)
(* routes/well-known.js: GET /.well-known/lnurlp/:username                 *)
(***************************************************************************)
\* the usernames of the model's resolutions
Usernames == {"alice", "bob"}

\* crypto.createHash('sha256').update(username).digest('hex'): 64 hex
\* characters that depend on the username alone, different for different
\* usernames; the ids Validation.generateId() draws have 32
sha256hex(username) ==
    CASE username = "alice" -> "9f86d0alice"
      [] username = "bob"   -> "2c26b4bob"

\* payment ids a drawn id can take
DrawnIds == {"id1", "id2", "id3"}

\* Mutant: the payment id is drawn anew for each resolution.
LnAddressResolve_DrawsId(r, username) ==
    /\ lreq[r].pc = "idle"
    /\ \A q \in LReqs : q < r => lreq[q].pc # "idle"
    /\ \E paymentId \in DrawnIds \ DOMAIN paymentConfigs :
          /\ paymentConfigs' = createPaymentConfig(paymentConfigs, paymentId,
                                                   minSendable, maxSendable, 100)
          /\ lreq' = [lreq EXCEPT ![r] = [pc |-> "done", username |-> username,
                                          paymentId |-> paymentId,
                                          before |-> paymentConfigs,
                                          after |-> paymentConfigs',
                                          answer |-> [status |-> 200,
                                                      minSendable |-> minSendable,
                                                      maxSendable |-> maxSendable,
                                                      commentAllowed |-> commentAllowed]]]
    /\ UNCHANGED <<greq, mintedAction, jobs, wvars, avars, cvars, payments, invoices, preq,
                   rec, sreq, reported, passes>>

\* The resolution: the payment id is the hash of the username, the store runs
\* createPaymentConfig(paymentId, config.limits.minSendable,
\* config.limits.maxSendable, 100), and the handler answers with the callback
\* of that payment id.  Requests are numbered in the order they arrive.
LnAddressResolve(r, username) ==
    /\ lreq[r].pc = "idle"
    /\ \A q \in LReqs : q < r => lreq[q].pc # "idle"
    /\ LET paymentId == sha256hex(username) IN
          /\ paymentConfigs' = createPaymentConfig(paymentConfigs, paymentId,
                                                   minSendable, maxSendable, 100)
          /\ lreq' = [lreq EXCEPT ![r] = [pc |-> "done", username |-> username,
                                          paymentId |-> paymentId,
                                          before |-> paymentConfigs,
                                          after |-> paymentConfigs',
                                          answer |-> [status |-> 200,
                                                      minSendable |-> minSendable,
                                                      maxSendable |-> maxSendable,
                                                      commentAllowed |-> commentAllowed]]]
    /\ UNCHANGED <<greq, mintedAction, jobs, wvars, avars, cvars, payments, invoices, preq,
                   rec, sreq, reported, passes>>

\* resolutions, with configurations made by GET /generate/pay beside them
AddressNext ==
    \/ \E c \in PayConfigs : PayGenerate(c[1], c[2], c[3])
    \/ \E r \in LReqs, username \in Usernames : LnAddressResolve(r, username)

SpecAddress == Init /\ [][AddressNext]_vars

(***************************************************************************)
(* The Lightning node: invoices are settled by their payers.               *)
(***************************************************************************)
\* the payer, who got the invoice in the answer of the pay callback, pays it
Settle(h) ==
    /\ h \in DOMAIN invoices /\ ~invoices[h].settled
    /\ preq[h].status = 200
    /\ invoices' = [invoices EXCEPT ![h].settled = TRUE]
    /\ rec' = [s \in Passes |-> [rec[s] EXCEPT !.sawSettle = TRUE]]
    /\ UNCHANGED <<xvars, wvars, avars, cvars, paymentConfigs, payments, preq, sreq, reported, passes>>

(***************************************************************************)
(* services/backgroundJobs.js: checkSettledInvoices                        *)
(***************************************************************************)
\* the timer fires: a pass starts and calls getUnpaidPayments.  Passes that
\* overlap are numbered in the order they start.
RecStart(s) ==
    /\ rec[s].pc = "idle"
    /\ \A t \in Passes : t < s => rec[t].pc # "idle"
    /\ rec' = [rec EXCEPT ![s] =
                 [IdlePass EXCEPT !.pc = "list", !.ran = TRUE,
                                  !.hasPrev = rec[s].ran,
                                  !.prevFailed = rec[s].failed # {},
                                  !.prevMarked = rec[s].marked,
                                  !.prevSawSettle = rec[s].sawSettle]]
    /\ passes' = IF passes < MaxPasses THEN passes + 1 ELSE passes
    /\ UNCHANGED <<xvars, wvars, avars, cvars, paymentConfigs, payments, invoices, preq, sreq,
                   reported>>

\* the pass goes on to the next payment of its list, or ends
Advance(p) ==
    IF Len(p.todo) > 1
    THEN [p EXCEPT !.todo = Tail(p.todo), !.pc = "query"]
    ELSE [p EXCEPT !.todo = << >>, !.pc = "idle"]

\* Mutant: the pass also deletes the payments that are paid.
RecListed_PurgesPaid(s) ==
    /\ rec[s].pc = "list"
    /\ LET rows == getUnpaidPayments(payments)
           p == [rec[s] EXCEPT !.snapshot = {rows[i] : i \in 1..Len(rows)},
                               !.listed = DOMAIN payments]
       IN rec' = [rec EXCEPT ![s] = IF Len(rows) > 0
                                    THEN [p EXCEPT !.todo = rows, !.pc = "query"]
                                    ELSE [p EXCEPT !.pc = "idle"]]
    /\ payments' = [k \in {i \in DOMAIN payments : ~payments[i].paid} |-> payments[k]]
    /\ UNCHANGED <<xvars, wvars, avars, cvars, paymentConfigs, invoices, preq, sreq,
                   reported, passes>>

\* the store answers getUnpaidPayments: the loop starts with a call of
\* getInvoice for the first payment
RecListed(s) ==
    /\ rec[s].pc = "list"
    /\ LET rows == getUnpaidPayments(payments)
           p == [rec[s] EXCEPT !.snapshot = {rows[i] : i \in 1..Len(rows)},
                               !.listed = DOMAIN payments]
       IN rec' = [rec EXCEPT ![s] = IF Len(rows) > 0
                                    THEN [p EXCEPT !.todo = rows, !.pc = "query"]
                                    ELSE [p EXCEPT !.pc = "idle"]]
    /\ UNCHANGED <<xvars, wvars, avars, cvars, paymentConfigs, payments, invoices, preq, sreq,
                   reported, passes>>

\* Mutant: an error of getInvoice ends the pass.
RecQueried_AbortsOnError(s, nodeOk) ==
    /\ rec[s].pc = "query"
    /\ LET id == Head(rec[s].todo)
           p == [rec[s] EXCEPT !.queried = @ \cup {id}]
       IN
       IF ~nodeOk
       THEN /\ rec' = [rec EXCEPT ![s] = [p EXCEPT !.failed = @ \cup {id},
                                                   !.todo = << >>, !.pc = "idle"]]
            /\ UNCHANGED reported
       ELSE IF invoices[payments[id].payment_hash].settled
       THEN /\ rec' = [rec EXCEPT ![s] = [p EXCEPT !.answeredSettled = @ \cup {id},
                                                   !.pc = "update"]]
            /\ reported' = reported \cup {payments[id].payment_hash}
       ELSE /\ rec' = [rec EXCEPT ![s] = Advance(p)]
            /\ UNCHANGED reported
    /\ UNCHANGED <<xvars, wvars, avars, cvars, paymentConfigs, payments, invoices, preq, sreq,
                   passes>>

\* the node answers getInvoice(payment.payment_hash) for the payment at the
\* head of the list: an error is caught and logged; a settled invoice has
\* updatePaymentPaid called; the loop goes on
RecQueried(s, nodeOk) ==
    /\ rec[s].pc = "query"
    /\ LET id == Head(rec[s].todo)
           p == [rec[s] EXCEPT !.queried = @ \cup {id}]
       IN
       IF ~nodeOk
       THEN /\ rec' = [rec EXCEPT ![s] = Advance([p EXCEPT !.failed = @ \cup {id}])]
            /\ UNCHANGED reported
       ELSE IF invoices[payments[id].payment_hash].settled
       THEN /\ rec' = [rec EXCEPT ![s] = [p EXCEPT !.answeredSettled = @ \cup {id},
                                                   !.pc = "update"]]
            /\ reported' = reported \cup {payments[id].payment_hash}
       ELSE /\ rec' = [rec EXCEPT ![s] = Advance(p)]
            /\ UNCHANGED reported
    /\ UNCHANGED <<xvars, wvars, avars, cvars, paymentConfigs, payments, invoices, preq, sreq,
                   passes>>

\* Mutant: the pass marks every payment once one invoice is settled.
RecUpdated_MarksAll(s) ==
    /\ rec[s].pc = "update"
    /\ LET p == [rec[s] EXCEPT !.marked = @ \cup {i \in DOMAIN payments : ~payments[i].paid}]
       IN /\ payments' = [i \in DOMAIN payments |-> [payments[i] EXCEPT !.paid = TRUE]]
          /\ rec' = [rec EXCEPT ![s] = Advance(p)]
    /\ UNCHANGED <<xvars, wvars, avars, cvars, paymentConfigs, invoices, preq, sreq, reported, passes>>

\* the store runs updatePaymentPaid(payment.id) and the loop goes on
RecUpdated(s) ==
    /\ rec[s].pc = "update"
    /\ LET id == Head(rec[s].todo)
           p == [rec[s] EXCEPT !.marked = IF payments[id].paid THEN @ ELSE @ \cup {id}]
       IN /\ payments' = updatePaymentPaid(payments, id)
          /\ rec' = [rec EXCEPT ![s] = Advance(p)]
    /\ UNCHANGED <<xvars, wvars, avars, cvars, paymentConfigs, invoices, preq, sreq, reported, passes>>

(***************************************************************************)
(* routes/admin.js: GET /payment/:paymentId/status                         *)
(***************************************************************************)
\* the answer of a finished status call
ReplyS(r, st, isPaid) ==
    [sreq EXCEPT ![r].pc = "done", ![r].status = st, ![r].paid = isPaid]

\* the call up to the answer of getPayment: 404 for no payment, the stored
\* state for a paid one, else getInvoice is called
StatusLookup(r, id) ==
    /\ sreq[r].pc = "idle"
    /\ \A q \in SReqs : q < r => sreq[q].pc # "idle"
    /\ IF ~getPayment(payments, id)
       THEN sreq' = [ReplyS(r, 404, FALSE) EXCEPT ![r].id = id]
       ELSE IF payments[id].paid
       THEN sreq' = [ReplyS(r, 200, TRUE) EXCEPT ![r].id = id]
       ELSE sreq' = [sreq EXCEPT ![r].id = id, ![r].pc = "query"]
    /\ UNCHANGED <<xvars, wvars, avars, cvars, paymentConfigs, payments, invoices, preq, rec,
                   reported, passes>>

\* the node answers getInvoice(payment.payment_hash): a settled invoice has
\* updatePaymentPaid called; otherwise, and on an error, the answer is unpaid
StatusQueried(r, nodeOk) ==
    /\ sreq[r].pc = "query"
    /\ IF nodeOk /\ invoices[payments[sreq[r].id].payment_hash].settled
       THEN /\ sreq' = [sreq EXCEPT ![r].pc = "update"]
            /\ reported' = reported \cup {payments[sreq[r].id].payment_hash}
       ELSE /\ sreq' = ReplyS(r, 200, FALSE)
            /\ UNCHANGED reported
    /\ UNCHANGED <<xvars, wvars, avars, cvars, paymentConfigs, payments, invoices, preq, rec,
                   passes>>

\* the store runs updatePaymentPaid(paymentId) and the handler answers paid
StatusUpdated(r) ==
    /\ sreq[r].pc = "update"
    /\ payments' = updatePaymentPaid(payments, sreq[r].id)
    /\ sreq' = ReplyS(r, 200, TRUE)
    /\ UNCHANGED <<xvars, wvars, avars, cvars, paymentConfigs, invoices, preq, rec,
                   reported, passes>>

\* payments come to exist by pay callbacks for 1000 msat that the node serves
PaymentsCreated ==
    \/ \E r \in PReqs : PayCallbackLookup(r, "cfg1", "1000", "")
    \/ \E r \in PReqs : PayCallbackInvoiced(r, TRUE)
    \/ \E r \in PReqs : PayCallbackStored(r)
    \/ \E h \in PaymentRecordIds : Settle(h)

\* the status endpoint called for a stored payment
StatusNext ==
    \/ \E r \in SReqs, id \in DOMAIN payments : StatusLookup(r, id)
    \/ \E r \in SReqs, nodeOk \in BOOLEAN : StatusQueried(r, nodeOk)
    \/ \E r \in SReqs : StatusUpdated(r)

\* No pay callback is between its arrival and its answer.  Until it stores the
\* payment a pay callback changes nothing that a pass or a status call reads,
\* so the passes and status calls are taken between the pay callbacks.
NoneInFlightP == \A q \in PReqs : preq[q].pc \in {"idle", "done"}

\* the reconciler's passes, which may overlap, with the status endpoint
ReconcileNext ==
    \/ PaymentsCreated
    \/ NoneInFlightP /\ StatusNext
    \/ \E s \in Passes : NoneInFlightP /\ passes < MaxPasses /\ RecStart(s)
    \/ \E s \in Passes : NoneInFlightP /\ RecListed(s)
    \/ \E s \in Passes, nodeOk \in BOOLEAN : NoneInFlightP /\ RecQueried(s, nodeOk)
    \/ \E s \in Passes : NoneInFlightP /\ RecUpdated(s)

\* the reconciler's passes one after the other, with the status endpoint
ReconcileSeqNext ==
    \/ PaymentsCreated
    \/ NoneInFlightP /\ StatusNext
    \/ NoneInFlightP /\ passes < MaxPasses /\ RecStart(1)
    \/ NoneInFlightP /\ RecListed(1)
    \/ \E nodeOk \in BOOLEAN : NoneInFlightP /\ RecQueried(1, nodeOk)
    \/ NoneInFlightP /\ RecUpdated(1)

SpecReconcile == Init /\ [][ReconcileNext]_vars
SpecReconcileSeq == Init /\ [][ReconcileSeqNext]_vars

\* the reconciler alone, its timer firing for ever
ReconcileLiveNext ==
    \/ PaymentsCreated
    \/ RecStart(1)
    \/ RecListed(1)
    \/ \E nodeOk \in BOOLEAN : RecQueried(1, nodeOk)
    \/ RecUpdated(1)

\* the node answers the query for this payment
RecQueriedFor(s, id) ==
    rec[s].pc = "query" /\ Head(rec[s].todo) = id /\ RecQueried(s, TRUE)

\* The timer fires again and again, the store answers, the node answers every
\* query with a result or an error, and for no payment do its queries fail
\* for ever.
ReconcileFairness ==
    /\ WF_vars(RecStart(1))
    /\ WF_vars(RecListed(1))
    /\ WF_vars(\E nodeOk \in BOOLEAN : RecQueried(1, nodeOk))
    /\ WF_vars(RecUpdated(1))
    /\ \A id \in PaymentRecordIds : SF_vars(RecQueriedFor(1, id))

SpecReconcileLive == Init /\ [][ReconcileLiveNext]_vars /\ ReconcileFairness

\* The store answers every statement; LNDService.rest sets no timeout on its
\* request, so that nothing is known of when, or whether, the node answers
\* createInvoice and getInvoice.
StoreFairness ==
    /\ WF_vars(RecListed(1))
    /\ WF_vars(RecUpdated(1))
    /\ \A r \in PReqs : WF_vars(PayCallbackStored(r))

\* the pay callback and the reconciler with a node that may stay silent
SpecNodeSilent == Init /\ [][ReconcileLiveNext]_vars /\ StoreFairness

(***************************************************************************)
(* services/backgroundJobs.js: start() and stop()                          *)
(***************************************************************************)
\* setInterval(callback, ms) for the job: a new timer is armed, its handle
\* returned
setInterval(j, id, job) == [j EXCEPT !.timers = @ \cup {[id |-> id, job |-> job]}]

\* clearInterval(handle): the timer of that handle is disarmed
clearInterval(j, handle) == [j EXCEPT !.timers = {t \in @ : t.id # handle}]

\* start(): startPaymentCheck() and startAuthCleanup() each arm a timer and
\* assign its handle to their field
JobsStart ==
    /\ jobs.starts < MaxStarts
    /\ LET paymentTimer == 2 * jobs.starts + 1
           cleanupTimer == 2 * jobs.starts + 2
           armed == setInterval(setInterval(jobs, paymentTimer, "paymentCheck"),
                                cleanupTimer, "authCleanup")
       IN jobs' = [armed EXCEPT !.paymentCheckInterval = paymentTimer,
                                !.authCleanupInterval = cleanupTimer,
                                !.starts = @ + 1, !.stopped = FALSE]
    /\ UNCHANGED <<greq, lreq, mintedAction, wvars, avars, cvars, pvars>>

\* stop(): the timer of each field that is not null is cleared and the field
\* set to null
JobsStop ==
    /\ jobs.starts > 0 /\ ~jobs.stopped
    /\ LET a == IF jobs.paymentCheckInterval # 0
                THEN [clearInterval(jobs, jobs.paymentCheckInterval)
                         EXCEPT !.paymentCheckInterval = 0]
                ELSE jobs
           b == IF a.authCleanupInterval # 0
                THEN [clearInterval(a, a.authCleanupInterval)
                         EXCEPT !.authCleanupInterval = 0]
                ELSE a
       IN jobs' = [b EXCEPT !.stopped = TRUE, !.passesAtStop = passes]
    /\ UNCHANGED <<greq, lreq, mintedAction, wvars, avars, cvars, pvars>>

\* a timer of the job is armed
Armed(job) == \E t \in jobs.timers : t.job = job

\* the jobs from start() to stop(): an armed timer starts a pass when it
\* fires, and a pass that has started goes on to its end
JobsNext ==
    \/ JobsStart
    \/ JobsStop
    \/ \E s \in Passes : Armed("paymentCheck") /\ passes < MaxPasses /\ RecStart(s)
    \/ \E s \in Passes : RecListed(s)
    \/ Armed("authCleanup") /\ CleanupChallenges
    \/ CleanupSessions

SpecJobs == Init /\ [][JobsNext]_vars

(***************************************************************************)
(* The cleanup pass beside the other tables.  A cleanup pass calls         *)
(* cleanupExpiredAuthChallenges and cleanupExpiredAuthSessions and nothing  *)
(* else, so the rows of the other tables are stored first and the auth flow *)
(* and the cleanup passes run beside them.                                  *)
(***************************************************************************)
\* a withdrawal, a channel request, a payment configuration and a payment
\* are stored
OthersStored ==
    /\ withdrawals # << >> /\ channelRequests # << >>
    /\ paymentConfigs # << >> /\ payments # << >>

\* the requests that store them
StoreOthers ==
    \/ withdrawals = << >> /\ WithdrawRequest
    \/ ChannelRequest
    \/ PayGenerate(minSendable, maxSendable, commentAllowed)
    \/ paymentConfigs # << >> /\ PayCallbackLookup(1, "cfg1", "1000", "")
    \/ PayCallbackInvoiced(1, TRUE)
    \/ PayCallbackStored(1)

CleanupNext ==
    \/ ~OthersStored /\ StoreOthers
    \/ OthersStored /\ SessionNext

SpecCleanup == Init /\ [][CleanupNext]_vars

(***************************************************************************)
(* The reconciler beside the other tables.  checkSettledInvoices calls      *)
(* getUnpaidPayments, getInvoice and updatePaymentPaid and nothing else, so *)
(* a withdrawal, a channel request, a payment configuration, an auth        *)
(* challenge and a session are stored first and the passes, one after the   *)
(* other, run beside them.                                                 *)
(***************************************************************************)
FrameStored ==
    /\ withdrawals # << >> /\ channelRequests # << >>
    /\ paymentConfigs # << >> /\ authSessions # << >>

\* the requests that store them; the verify call carries a valid signature
\* for the challenge that was issued
StoreFrame ==
    \/ withdrawals = << >> /\ WithdrawRequest /\ "w1" \in DOMAIN withdrawals'
    \/ ChannelRequest
    \/ PayGenerate(minSendable, maxSendable, commentAllowed)
    \/ AuthChallengeRequest("")
    \/ \E p \in ValidVerifyParams :
          /\ p[1] \in DOMAIN authChallenges /\ p[3] = "keyA"
          /\ AuthVerifyLookup(1, p[1], p[2], p[3])
    \/ AuthVerifyUsed(1)
    \/ AuthVerifyCreated(1)

ReconcileFrameNext ==
    \/ ~FrameStored /\ StoreFrame
    \/ FrameStored /\ ReconcileSeqNext

SpecReconcileFrame == Init /\ [][ReconcileFrameNext]_vars

(***************************************************************************)
(* The three callbacks that take a k1.  The withdraw, channel and auth      *)
(* routes share no table and no handler of one calls another, so each flow  *)
(* is taken by itself: a flow steps while the other two have not begun.     *)
(***************************************************************************)
WithdrawUntouched == withdrawals = << >> /\ wreq = [r \in WReqs |-> IdleW]
ChannelUntouched == channelRequests = << >> /\ creq = [r \in CReqs |-> IdleC]
AuthUntouched ==
    /\ authChallenges = << >> /\ authSessions = << >>
    /\ vreq = [r \in VReqs |-> IdleV]
    /\ minted = << >> /\ ticks = 0 /\ cleanupPc = "idle"

CallbacksNext ==
    \/ ChannelUntouched /\ AuthUntouched /\ WithdrawNext
    \/ WithdrawUntouched /\ AuthUntouched /\ ChannelNext
    \/ WithdrawUntouched /\ ChannelUntouched /\ AuthNext

SpecCallbacks == Init /\ [][CallbacksNext]_vars

(***************************************************************************)
(* The server: every route and job.                                        *)
(***************************************************************************)
Next ==
    \/ WithdrawNext
    \/ AuthNext
    \/ AuthSessionNext
    \/ ChannelNext
    \/ GenerateNext
    \/ PayNext
    \/ AddressNext
    \/ ReconcileNext
    \/ JobsNext

Spec == Init /\ [][Next]_vars

(***************************************************************************)
(* Properties of the withdraw flow.                                        *)
(***************************************************************************)
\* the callbacks for k1 that called lndService.payInvoice
PayInvoiceCallers(k1) == {r \in WReqs : wreq[r].k1 = k1 /\ wreq[r].called}
\* the callbacks for k1 answered {status: 'OK'}
OkCallbacks(k1) == {r \in WReqs : wreq[r].k1 = k1 /\ wreq[r].status = 200}
\* the callback got past the lookup: it presented a valid k1 of an unused withdrawal
FoundUnused(r) == wreq[r].pc \in {"decode", "pay", "update"}
                  \/ (Answered(wreq[r]) /\ wreq[r].status \in {200, 500})
OutOfRangeReply(r) == wreq[r].reason = "Payment failed: Amount out of range"

\* C1: withdraw redemption is exactly-once under interleaving: of the callbacks
\* for one k1, interleaved at the store and node awaits, at most one calls
\* payInvoice, at most one is answered OK, and the others that presented valid
\* parameters are answered 'Invalid or used k1'.
C1_ExactlyOnceInterleaved ==
    \A k1 \in WithdrawK1s :
        /\ Cardinality(PayInvoiceCallers(k1)) <= 1
        /\ Cardinality(OkCallbacks(k1)) <= 1
        /\ \A r, q \in WReqs :
              (r # q /\ wreq[r].k1 = k1 /\ wreq[q].k1 = k1 /\ wreq[r].status = 200
               /\ Answered(wreq[q]) /\ isValidPaymentRequest(wreq[q].pr))
              => wreq[q].reason = "Invalid or used k1"

\* C2: callbacks one after the other, withdrawal with the default limits: a
\* callback whose invoice decodes to 5000 sat is never rejected for its amount,
\* and once it is answered OK the withdrawal is used with amount 5000, and
\* every later callback with that k1 (any invoice) is answered
\* 'Invalid or used k1' without a payInvoice call.
C2_SequentialSingleUse ==
    \A r \in WReqs :
        /\ wreq[r].pr = "lnbc5000" => ~OutOfRangeReply(r)
        /\ (wreq[r].pr = "lnbc5000" /\ wreq[r].status = 200) =>
              /\ wreq[r].k1 \in DOMAIN withdrawals
              /\ withdrawals[wreq[r].k1].used
              /\ withdrawals[wreq[r].k1].amount_sats = 5000
              /\ \A q \in WReqs :
                    (q > r /\ wreq[q].k1 = wreq[r].k1 /\ isValidPaymentRequest(wreq[q].pr))
                    => /\ Answered(wreq[q])
                       /\ wreq[q].status = 400
                       /\ wreq[q].reason = "Invalid or used k1"
                       /\ ~wreq[q].called

\* C2 witness: a 5000-sat callback answered OK, then a callback with the same k1
C2_Witness ==
    /\ wreq[1].pr = "lnbc5000" /\ wreq[1].status = 200
    /\ wreq[2].k1 = wreq[1].k1 /\ wreq[2].pr = "lnbc200000"
    /\ wreq[2].reason = "Invalid or used k1"

\* C3: a callback with a valid unused k1 and an invoice outside the limits is
\* answered with an error and pays nothing, and the withdrawal is consumed: a
\* later callback with the same k1 is rejected and pays nothing.
C3_OutOfRangeConsumes ==
    \A r \in WReqs :
        OutOfRangeReply(r) =>
            /\ ~wreq[r].called
            /\ wreq[r].status # 200
            /\ \A q \in WReqs :
                  (q > r /\ wreq[q].k1 = wreq[r].k1 /\ wreq[q].pc # "idle")
                  => (~FoundUnused(q) /\ ~wreq[q].called)

\* C4: payInvoice is attempted at most once per withdrawal over any sequence of
\* callbacks: after a failed payInvoice the withdrawal stays spent.
C4_PayAttemptedOnce ==
    \A r, q \in WReqs :
        (q > r /\ wreq[q].k1 = wreq[r].k1 /\ wreq[r].called
         /\ wreq[r].reason = "Payment failed: node")
        => (~FoundUnused(q) /\ ~wreq[q].called)

\* the limits read in the unit they are advertised in (millisatoshi)
InAdvertisedRange(sats) ==
    sats * 1000 >= minWithdrawable /\ sats * 1000 <= maxWithdrawable

\* C5: with the default limits a callback for an unused k1 pays the invoice
\* if and only if its amount is between 1 sat and 100,000 sat inclusive.
C5_BoundsInAdvertisedUnit ==
    \A r \in WReqs :
        /\ wreq[r].called => InAdvertisedRange(num_satoshis(wreq[r].pr))
        /\ OutOfRangeReply(r) => ~InAdvertisedRange(num_satoshis(wreq[r].pr))

(***************************************************************************)
(* Properties of the auth flow.                                            *)
(***************************************************************************)
\* the verify call got past the signature checks
PassedVerify(r) == vreq[r].pc \in {"use", "create"} \/ vreq[r].status = 200
\* the verify call created a session
CreatedSession(r) == vreq[r].sessionExp # 0
\* the verify call's signature was made under its key over its k1
RightSignature(r) == vreq[r].key \in Keys /\ vreq[r].sig = Sign(vreq[r].key, vreq[r].k1)
\* the answers to a signature that is malformed or fails verification
SignatureErrors == {"Invalid DER signature", "Invalid signature",
                    "Signature verification failed"}

\* C6: verify calls one after the other: a call passes the signature checks only
\* with a signature made under the presented key over the presented k1 (one
\* over other bytes or under another key fails), and once a call has succeeded
\* every later call with that k1 (the same parameters included) is answered
\* 'Invalid or expired k1' and creates no session.
C6_ValidSignatureSucceedsOnce ==
    \A r \in VReqs :
        /\ PassedVerify(r) => RightSignature(r)
        /\ vreq[r].status = 200 =>
              \A q \in VReqs :
                  (q > r /\ vreq[q].k1 = vreq[r].k1) =>
                      /\ Answered(vreq[q])
                      /\ vreq[q].status = 400
                      /\ vreq[q].reason = "Invalid or expired k1"
                      /\ ~CreatedSession(q)

\* C6 witness: a successful verify call repeated with the same parameters
C6_Witness ==
    /\ vreq[1].status = 200
    /\ vreq[2].k1 = vreq[1].k1 /\ vreq[2].sig = vreq[1].sig /\ vreq[2].key = vreq[1].key
    /\ vreq[2].reason = "Invalid or expired k1"

\* C7: for any auth challenge at most one session is ever created, however the
\* verify calls with valid signatures for it interleave.
C7_OneSessionPerChallenge ==
    \A k1 \in AuthK1s :
        Cardinality({r \in VReqs : vreq[r].k1 = k1 /\ CreatedSession(r)}) <= 1

\* C8: a verify call whose signature is malformed or fails verification creates
\* no session and leaves the challenge unconsumed: a later call for the same k1
\* with a right signature passes, provided the challenge had not expired when
\* it arrived and no other call has claimed the challenge.
C8_FailedSignatureKeepsChallenge ==
    \A r \in VReqs :
        vreq[r].reason \in SignatureErrors =>
            /\ ~CreatedSession(r)
            /\ \A q \in VReqs :
                  (/\ q > r /\ vreq[q].k1 = vreq[r].k1 /\ RightSignature(q)
                   /\ ~vreq[q].late
                   /\ \A p \in VReqs \ {q} :
                         vreq[p].k1 = vreq[q].k1 =>
                             (vreq[p].pc # "create" /\ vreq[p].status # 200))
                  => PassedVerify(q)

\* C8 witness: a call with a wrong signature, then one with the right signature
C8_Witness ==
    /\ vreq[1].reason = "Invalid signature"
    /\ vreq[2].k1 = vreq[1].k1 /\ vreq[2].status = 200

\* C9: a verify call that arrives when the challenge's expiry has passed is
\* answered with an error and creates no session, whether or not a cleanup
\* pass has removed the challenge.
C9_ExpiryCheckedAtClaim ==
    \A r \in VReqs :
        vreq[r].late =>
            /\ Answered(vreq[r])
            /\ vreq[r].status = 400
            /\ ~CreatedSession(r)

\* C9 witness: a call with a right signature came after the expiry, and the
\* challenge is still stored unused (no cleanup pass has removed it)
C9_Witness ==
    \E r \in VReqs :
        /\ vreq[r].late /\ RightSignature(r) /\ Answered(vreq[r])
        /\ vreq[r].k1 \in DOMAIN authChallenges
        /\ ~authChallenges[vreq[r].k1].used

\* C10: validate answers OK for a session from its creation until a logout
\* deletes it or its expiry passes; from then on validate, status and logout
\* for that session id all fail.
C10_SessionValidUntilDeleted ==
    \A s \in SessionIds :
        /\ Live(s) => /\ validateStatus(s) = 200
                      /\ statusStatus(s) = 200
                      /\ logoutLookupStatus(s) = 0
        /\ ~Live(s) => /\ validateStatus(s) = 401
                       /\ statusStatus(s) = 404
                       /\ logoutLookupStatus(s) = 404

\* C10 witness: a session that has not expired was logged out, and validate fails
C10_Witness ==
    \E s \in SessionIds :
        /\ s \in loggedOut
        /\ now < vreq[s].sessionExp
        /\ validateStatus(s) = 401

\* C27: every session in the store was created by the verify call of its
\* number: that call's signature imports and verifies over its k1 under the
\* session's linking key, its k1 names a challenge that had been created and
\* had not expired when the call loaded it, and the session's action is the
\* action that challenge was created with.
C27_SessionFromVerifiedSignature ==
    \A s \in DOMAIN authSessions :
        /\ vreq[s].status = 200
        /\ authSessions[s].linking_key = vreq[s].key
        /\ signatureImport(vreq[s].sig)
        /\ ecdsaVerify(vreq[s].sig, vreq[s].k1, authSessions[s].linking_key)
        /\ vreq[s].k1 \in DOMAIN minted
        /\ ~vreq[s].late
        /\ authSessions[s].action = mintedAction[vreq[s].k1]

\* C27 witness: a session for the action 'link' under the second key, while
\* another verify call for the same challenge was answered with an error
C27_Witness ==
    \E s \in DOMAIN authSessions :
        /\ authSessions[s].action = "link" /\ authSessions[s].linking_key = "keyB"
        /\ \E r \in VReqs : r # s /\ vreq[r].k1 = vreq[s].k1 /\ vreq[r].status = 400

(***************************************************************************)
(* Properties of the channel flow.                                         *)
(***************************************************************************)
\* the callbacks for k1 that called lndService.openChannel
OpenChannelCallers(k1) == {r \in CReqs : creq[r].k1 = k1 /\ creq[r].opened}
\* the callback asks to open a channel and its parameters pass validation
ValidOpenCallback(r) ==
    /\ creq[r].pc # "idle"
    /\ creq[r].cancel # "1"
    /\ Len(validateChannelRequest(creq[r].k1, creq[r].remoteid, creq[r].private,
                                  creq[r].cancel)) = 0

\* C11: callbacks one after the other: once a callback with cancel=1 has been
\* answered OK for a k1, a later callback with a valid remoteid for that k1 is
\* answered 'Invalid or used k1', stores no remote id and does not call
\* openChannel.
C11_CancelledRejectsOpen ==
    \A r, q \in CReqs :
        (/\ q > r /\ creq[q].k1 = creq[r].k1
         /\ creq[r].cancel = "1" /\ creq[r].status = 200
         /\ ValidOpenCallback(q))
        => /\ Answered(creq[q])
           /\ creq[q].status = 400
           /\ creq[q].reason = "Invalid or used k1"
           /\ ~creq[q].stored
           /\ ~creq[q].opened

\* C11 witness: a cancel answered OK, then a callback with a remoteid rejected
C11_Witness ==
    /\ creq[1].cancel = "1" /\ creq[1].status = 200
    /\ creq[2].k1 = creq[1].k1 /\ creq[2].remoteid = "nodeA"
    /\ creq[2].reason = "Invalid or used k1"
    /\ channelRequests[creq[1].k1].remote_id = "none"

\* C12: callbacks one after the other: once a callback has stored the remote
\* id and its openChannel attempt is over (succeeded or failed), the request
\* is completed, and no later callback with that k1 calls openChannel.
C12_CompletedAfterAttempt ==
    \A r \in CReqs :
        (creq[r].opened /\ Answered(creq[r])) =>
            /\ channelRequests[creq[r].k1].completed
            /\ \A q \in CReqs :
                  (q > r /\ creq[q].k1 = creq[r].k1) =>
                      (~creq[q].found /\ ~creq[q].opened)

\* C13: a cancelled or completed channel request is final: no callback changes
\* a field of it, and no request is both cancelled and completed, however the
\* callbacks interleave.
C13_TerminalFinal ==
    /\ \A r \in CReqs : ~creq[r].wroteTerminal
    /\ \A k1 \in DOMAIN channelRequests :
          ~(channelRequests[k1].cancelled /\ channelRequests[k1].completed)

\* C14: for any channel challenge, openChannel is called at most once, however
\* the callbacks that carry its k1 interleave.
C14_OpenChannelOnce ==
    \A k1 \in ChannelK1s : Cardinality(OpenChannelCallers(k1)) <= 1

\* C15: a channel callback that passed validation and found a request that is
\* neither cancelled nor completed is answered {status: 'OK'}, also when its
\* openChannel call failed.
C15_OpenFailureStillOk ==
    \A r \in CReqs :
        (creq[r].found /\ Answered(creq[r])) =>
            (creq[r].status = 200 /\ creq[r].reason = "OK")

\* C15 witness: openChannel failed and the callback was answered OK
C15_Witness ==
    \E r \in CReqs :
        creq[r].found /\ creq[r].openFailed /\ Answered(creq[r]) /\ creq[r].status = 200

\* C26: a channel callback with cancel=1 and the k1 of a request that is
\* neither cancelled nor completed when it arrives goes on to cancel the
\* request, whatever its remoteid (none, malformed, well-formed): it is
\* answered OK with the request cancelled, stores no remote id and does not
\* call openChannel; a callback without cancel=1 whose remoteid is missing or
\* malformed is answered with a validation error before any store operation.
C26_CancelNeedsOnlyK1 ==
    \A r \in CReqs :
        /\ (creq[r].cancel = "1" /\ creq[r].pending) =>
              /\ creq[r].pc \in {"cancel", "done"}
              /\ ~creq[r].stored /\ ~creq[r].opened
              /\ Answered(creq[r]) =>
                    /\ creq[r].status = 200
                    /\ channelRequests[creq[r].k1].cancelled
        /\ (creq[r].pc # "idle" /\ creq[r].cancel # "1"
             /\ creq[r].remoteid \notin RemoteIds) =>
              /\ Answered(creq[r]) /\ creq[r].status = 400
              /\ ~creq[r].storeRead /\ ~creq[r].stored /\ ~creq[r].opened

\* C26 witness: a callback without cancel=1 and with a malformed remoteid is
\* rejected, then one with cancel=1 and the same remoteid cancels the request
C26_Witness ==
    /\ creq[1].cancel = "" /\ creq[1].remoteid = "badid" /\ creq[1].status = 400
    /\ creq[2].cancel = "1" /\ creq[2].remoteid = "badid" /\ creq[2].status = 200
    /\ creq[2].k1 = creq[1].k1
    /\ channelRequests[creq[2].k1].cancelled

(***************************************************************************)
(* Properties of the reconciler and the payment status endpoint.           *)
(***************************************************************************)
\* the pass has ended
PassEnded(s) == rec[s].ran /\ rec[s].pc = "idle"
\* the pass ended, a pass ran before it, and no invoice was settled from the
\* start of that pass on
SecondPassNoNewSettlement(s) ==
    PassEnded(s) /\ rec[s].hasPrev /\ ~rec[s].prevSawSettle /\ ~rec[s].sawSettle
\* the payments some operation has marked paid
EverMarked ==
    UNION {rec[s].marked \cup rec[s].prevMarked : s \in Passes}
    \cup {sreq[r].id : r \in {q \in SReqs : sreq[q].paid}}
\* once marked paid, a payment is not reverted
PaidIsKept == \A id \in EverMarked : payments[id].paid

C17_FailedQueryDoesNotStopPass ==
    \A s \in Passes :
        PassEnded(s) =>
            /\ rec[s].queried = rec[s].snapshot
            /\ rec[s].failed \cap rec[s].marked = {}
            /\ \A id \in rec[s].answeredSettled : payments[id].paid

\* C17 witness: the query for the first payment failed and the pass marked
\* the second
C17_Witness ==
    \E s \in Passes :
        PassEnded(s) /\ 1 \in rec[s].failed /\ ~payments[1].paid /\ 2 \in rec[s].marked

\* the payment is stored and marked paid
Paid(id) == id \in DOMAIN payments /\ payments[id].paid
\* the payment is stored, its invoice is settled at the node, it is not marked
SettledUnpaid(id) ==
    /\ id \in DOMAIN payments
    /\ invoices[payments[id].payment_hash].settled
    /\ ~payments[id].paid

C19_PaidOnlyAfterSettled ==
    /\ \A id \in DOMAIN payments :
          payments[id].paid =>
              /\ payments[id].payment_hash \in reported
              /\ invoices[payments[id].payment_hash].settled
    /\ \A r \in PReqs : preq[r].status = 200 => r \in DOMAIN payments

\* C19 witness: two passes run at the same time, a status call has been
\* answered, one payment is paid and another, not settled, is unpaid
C19_Witness ==
    /\ rec[1].pc # "idle" /\ rec[2].pc # "idle"
    /\ \E r \in SReqs : sreq[r].pc = "done" /\ sreq[r].status = 200
    /\ \E i, j \in DOMAIN payments :
          /\ payments[i].paid
          /\ ~payments[j].paid /\ ~invoices[payments[j].payment_hash].settled

(***************************************************************************)
(* Properties of the pay flow.                                             *)
(***************************************************************************)
\* the callback's amount is a number outside the bounds stored for its payment id
OutsideSendable(r) ==
    /\ preq[r].hadConfig
    /\ ~IsNaN(preq[r].amount)
    /\ \/ parseInt(preq[r].amount) < paymentConfigs[preq[r].paymentId].min_sendable
       \/ parseInt(preq[r].amount) > paymentConfigs[preq[r].paymentId].max_sendable

\* C20: a pay callback whose amount is outside [min_sendable, max_sendable] of
\* the configuration stored for its payment id creates no invoice at the node
\* and stores no payment.
C20_AmountWithinConfig ==
    \A r \in PReqs :
        OutsideSendable(r) => (~preq[r].created /\ r \notin DOMAIN payments)

\* the callback's comment is longer than the comment_allowed stored for its
\* payment id
CommentTooLong(r) ==
    /\ preq[r].hadConfig
    /\ preq[r].comment # ""
    /\ StrLen(preq[r].comment) > paymentConfigs[preq[r].paymentId].comment_allowed

\* C21: a pay callback whose comment is longer than the comment_allowed of the
\* configuration stored for its payment id is answered with a validation
\* error, creates no invoice at the node and stores no payment; a callback
\* with a valid amount and a comment of at most that length is not answered
\* with a validation error.
C21_CommentWithinConfig ==
    \A r \in PReqs :
        /\ CommentTooLong(r) =>
              /\ Answered(preq[r]) /\ preq[r].status = 400
              /\ ~preq[r].created /\ r \notin DOMAIN payments
        /\ (preq[r].hadConfig /\ isValidAmount(preq[r].amount) /\ ~CommentTooLong(r))
              => preq[r].status # 400

\* sats is floor(msat / 1000)
IsFloorOfThousandth(sats, msat) == sats * 1000 <= msat /\ msat < (sats + 1) * 1000

\* the pay callback was answered with an invoice
PayAnswered(r) == Answered(preq[r]) /\ preq[r].status = 200

\* what a pay callback answered with an invoice has left behind: one invoice
\* at the node and one unpaid payment, both of floor(amount / 1000) sat
OneInvoiceOneRecord ==
    /\ \A r \in PReqs :
          PayAnswered(r) =>
              /\ isValidAmount(preq[r].amount)
              /\ r \in DOMAIN invoices /\ r \in DOMAIN payments
              /\ IsFloorOfThousandth(invoices[r].value, parseInt(preq[r].amount))
              /\ payments[r].amount_sats = invoices[r].value
              /\ payments[r].payment_hash = r
              /\ ~payments[r].paid
              /\ preq[r].amount = "1000" => payments[r].amount_sats = 1
    /\ DOMAIN payments = {r \in PReqs : PayAnswered(r)}
    /\ DOMAIN invoices = {r \in PReqs : preq[r].created}

\* C22: a pay callback with a valid amount of A msat that is answered with an
\* invoice has created one invoice of floor(A / 1000) sat at the node and
\* stored one unpaid payment of that amount (1 sat for amount=1000), and no
\* step of a pay callback changes a payment configuration, so that the
\* configuration serves the next callback.
C22_OneInvoiceOneRecord ==
    /\ []OneInvoiceOneRecord
    /\ [][preq' # preq => paymentConfigs' = paymentConfigs]_vars

\* C22 witness: two callbacks of one configuration answered with an invoice,
\* one for 1000 msat, one for 1999 msat, each with a payment of 1 sat
C22_Witness ==
    /\ PayAnswered(1) /\ PayAnswered(2)
    /\ preq[1].paymentId = "cfg1" /\ preq[2].paymentId = "cfg1" /\ preq[1].hadConfig
    /\ preq[1].amount = "1000" /\ preq[2].amount = "1999"
    /\ payments[1].amount_sats = 1 /\ payments[2].amount_sats = 1

(***************************************************************************)
(* Properties of the Lightning-Address resolution.                         *)
(***************************************************************************)
\* the resolutions of the username that have been answered
ResolutionsOf(username) ==
    {r \in LReqs : lreq[r].pc = "done" /\ lreq[r].username = username}
\* the first of them
FirstResolutionOf(username) ==
    CHOOSE r \in ResolutionsOf(username) : \A q \in ResolutionsOf(username) : r <= q
\* the payment ids stored that no GET /generate/pay has drawn
AddressConfigs == DOMAIN paymentConfigs \ {"cfg1"}

\* C23: every resolution of a username is answered with the same payment id;
\* the configuration stored for it is the one the first resolution stored
\* (bounds and comment limit); the configurations made by resolutions are as
\* many as the usernames resolved; and a resolution changes the configuration
\* of no other payment id.
C23_ResolutionIdempotent ==
    /\ \A username \in Usernames :
          ResolutionsOf(username) # {} =>
              LET first == FirstResolutionOf(username)
                  id    == lreq[first].paymentId
              IN /\ \A r \in ResolutionsOf(username) :
                        /\ lreq[r].paymentId = id
                        /\ lreq[r].after[id] = lreq[first].after[id]
                 /\ id \in DOMAIN paymentConfigs
                 /\ paymentConfigs[id] = lreq[first].after[id]
    /\ Cardinality(AddressConfigs)
          = Cardinality({username \in Usernames : ResolutionsOf(username) # {}})
    /\ \A r \in LReqs :
          lreq[r].pc = "done" =>
              /\ DOMAIN lreq[r].after = DOMAIN lreq[r].before \cup {lreq[r].paymentId}
              /\ \A id \in DOMAIN lreq[r].before \ {lreq[r].paymentId} :
                    lreq[r].after[id] = lreq[r].before[id]

\* C23 witness: a username resolved twice, the second time beside a
\* configuration of GET /generate/pay and one of another username
C23_Witness ==
    /\ Cardinality(ResolutionsOf("alice")) = 2
    /\ Cardinality(ResolutionsOf("bob")) = 1
    /\ lreq[1].username = "alice" /\ lreq[3].username = "alice"
    /\ "cfg1" \in DOMAIN lreq[3].before
    /\ Cardinality(DOMAIN paymentConfigs) = 3

(***************************************************************************)
(* Properties of the callbacks' parameter validation.                      *)
(***************************************************************************)
\* the tables of the store
Tables == <<withdrawals, authChallenges, authSessions, channelRequests,
            paymentConfigs, payments>>

\* a callback with a k1 that is not 64 hex characters has been answered 400
\* without a store operation and without a call of the node
MalformedK1Rejected ==
    /\ \A r \in WReqs :
          wreq[r].k1 \in MalformedK1s =>
              /\ Answered(wreq[r]) /\ wreq[r].status = 400
              /\ ~wreq[r].storeRead /\ ~wreq[r].called
    /\ \A r \in CReqs :
          creq[r].k1 \in MalformedK1s =>
              /\ Answered(creq[r]) /\ creq[r].status = 400
              /\ ~creq[r].storeRead /\ ~creq[r].found
              /\ ~creq[r].stored /\ ~creq[r].opened
    /\ \A r \in VReqs :
          vreq[r].k1 \in MalformedK1s =>
              /\ Answered(vreq[r]) /\ vreq[r].status = 400
              /\ ~vreq[r].storeRead /\ vreq[r].sessionExp = 0

\* the step takes in a callback with a k1 that is not 64 hex characters
MalformedK1Arrives ==
    \/ \E r \in WReqs : wreq[r].pc = "idle" /\ wreq'[r].k1 \in MalformedK1s
    \/ \E r \in CReqs : creq[r].pc = "idle" /\ creq'[r].k1 \in MalformedK1s
    \/ \E r \in VReqs : vreq[r].pc = "idle" /\ vreq'[r].k1 \in MalformedK1s

\* C24: a withdraw or channel callback, or an auth callback (a request with
\* k1, sig and key), whose k1 is not 64 hex characters is answered with a
\* validation error before any store operation and any call of the node, and
\* the step that takes it in leaves every table as it was.
C24_MalformedK1Rejected ==
    /\ []MalformedK1Rejected
    /\ [][MalformedK1Arrives => Tables' = Tables]_vars

\* C24 witness: a withdraw callback with a k1 of 63 hex characters, one with
\* 65, for a stored withdrawal's invoice, both answered 400
C24_Witness ==
    /\ withdrawals # << >>
    /\ wreq[1].k1 = "k1short" /\ wreq[1].pr = "lnbc5000" /\ wreq[1].status = 400
    /\ wreq[2].k1 = "k1long" /\ wreq[2].status = 400

(***************************************************************************)
(* Properties of the calls to the Lightning node.                          *)
(***************************************************************************)
\* C25: every pay callback that has called the node is eventually answered,
\* and every reconciler pass that has started eventually ends, also when the
\* node does not answer.
C25_NoOperationBlocks ==
    /\ \A r \in PReqs : (preq[r].pc = "invoice") ~> Answered(preq[r])
    /\ \A s \in Passes : (rec[s].pc # "idle") ~> (rec[s].pc = "idle")

(***************************************************************************)
(* Properties of the background jobs.                                      *)
(***************************************************************************)
\* C28: once stop() has returned, and until start() is called again, no timer
\* of the background jobs is armed and no reconciler pass has started since,
\* however many times start() was called before.
C28_StopDisarmsEveryTimer ==
    jobs.stopped => (jobs.timers = {} /\ passes = jobs.passesAtStop)

\* a step of the cleanup pass
CleanupStep == cleanupPc' # cleanupPc

\* the step removes no challenge and no session whose expiry has not passed,
\* and leaves such a row as it is: the session is valid and the challenge, if
\* unused, can be claimed
KeepsUnexpired ==
    /\ \A k1 \in DOMAIN authChallenges :
          now < authChallenges[k1].expires_at =>
              /\ k1 \in DOMAIN authChallenges'
              /\ authChallenges'[k1] = authChallenges[k1]
              /\ ~authChallenges[k1].used => getAuthChallenge(authChallenges', k1, now').found
    /\ \A sessionId \in DOMAIN authSessions :
          now < authSessions[sessionId].expires_at =>
              /\ sessionId \in DOMAIN authSessions'
              /\ authSessions'[sessionId] = authSessions[sessionId]
              /\ getAuthSession(authSessions', sessionId, now')

\* the step adds no row to the auth tables
AddsNoAuthRow ==
    /\ DOMAIN authChallenges' \subseteq DOMAIN authChallenges
    /\ DOMAIN authSessions' \subseteq DOMAIN authSessions

\* C29: a step of the cleanup pass removes only challenges and sessions whose
\* expiry has passed: a session that has not expired stays valid, a challenge
\* that has not expired and is unused stays claimable; and the step leaves
\* withdrawals, channel requests, payment configurations and payments as they
\* are.
C29_CleanupRemovesOnlyExpired ==
    [][CleanupStep =>
          /\ KeepsUnexpired
          /\ AddsNoAuthRow
          /\ withdrawals' = withdrawals
          /\ channelRequests' = channelRequests
          /\ paymentConfigs' = paymentConfigs
          /\ payments' = payments]_vars

\* C29 witness: beside the rows of the other tables, the challenge of a
\* session has expired and a cleanup pass has removed it, and the session,
\* which has not expired, is in the store and valid
C29_Witness ==
    /\ OthersStored
    /\ cleanupPc = "idle"
    /\ \E s \in DOMAIN authSessions :
          /\ now < authSessions[s].expires_at
          /\ validateStatus(s) = 200
          /\ vreq[s].k1 \in DOMAIN minted
          /\ now >= minted[vreq[s].k1]
          /\ vreq[s].k1 \notin DOMAIN authChallenges

\* a step of a reconciler pass: the state of a pass changes, and not by the
\* payer settling an invoice
PassStep == rec' # rec /\ invoices' = invoices

\* the payments are the same ones, each with its amount and payment hash
OtherFieldsKept ==
    /\ DOMAIN payments' = DOMAIN payments
    /\ \A id \in DOMAIN payments :
          /\ payments'[id].amount_sats = payments[id].amount_sats
          /\ payments'[id].payment_hash = payments[id].payment_hash

\* C30: a step of a reconciler pass leaves withdrawals, channel requests,
\* payment configurations, auth challenges and auth sessions as they are, and
\* of the payments it changes nothing but the paid flag.
C30_PassChangesOnlyPaidFlag ==
    [][PassStep =>
          /\ withdrawals' = withdrawals
          /\ channelRequests' = channelRequests
          /\ paymentConfigs' = paymentConfigs
          /\ authChallenges' = authChallenges
          /\ authSessions' = authSessions
          /\ OtherFieldsKept]_vars

\* C30 witness: beside the rows of the other tables a pass has marked a
\* payment paid
C30_Witness ==
    /\ FrameStored
    /\ authChallenges # << >>
    /\ \E s \in Passes : \E id \in rec[s].marked : payments[id].paid

\* the callbacks for k1 whose payInvoice call the node has answered with
\* success: the invoice of each has been paid
PaidCallbacks(k1) ==
    {r \in WReqs : wreq[r].k1 = k1 /\ (wreq[r].pc = "update" \/ wreq[r].status = 200)}

\* C31: a withdrawal that is unused has amount 0, and a withdrawal that is used
\* has the decoded amount of the invoice that was paid for it: every invoice
\* the node paid for its k1 decodes to the stored amount.
C31_AmountOfThePaidInvoice ==
    \A k1 \in DOMAIN withdrawals :
        /\ ~withdrawals[k1].used => withdrawals[k1].amount_sats = 0
        /\ withdrawals[k1].used =>
              \A r \in PaidCallbacks(k1) :
                  num_satoshis(wreq[r].pr) = withdrawals[k1].amount_sats

\* a channel request whose getNodeURI threw has been answered with the error
FailedGenerate(g) == greq[g].pc = "done" /\ greq[g].status # 200

\* C32: a channel request that fails because the node's URI cannot be obtained
\* leaves no ChannelRequest persisted: the row of the k1 it drew is not in
\* the table.
C32_FailedGenerateLeavesNoRow ==
    \A g \in GReqs : FailedGenerate(g) => greq[g].k1 \notin DOMAIN channelRequests

\* C33: after a Lightning-Address resolution the minSendable, maxSendable and
\* commentAllowed it returned are the values stored in the payment
\* configuration of the derived payment id, and the values the pay request
\* for that id returns.
C33_ResolutionMatchesConfig ==
    \A r \in LReqs :
        lreq[r].pc = "done" =>
            LET id == lreq[r].paymentId
                stored == paymentConfigs[id]
            IN /\ lreq[r].answer.minSendable = stored.min_sendable
               /\ lreq[r].answer.maxSendable = stored.max_sendable
               /\ lreq[r].answer.commentAllowed = stored.comment_allowed
               /\ PayRequest(paymentConfigs, id) = lreq[r].answer

\* C34: every stored payment configuration has 1 <= min_sendable <=
\* max_sendable, whatever minSendable and maxSendable GET /generate/pay was
\* called with.
C34_ConfigBoundsOrdered ==
    \A id \in DOMAIN paymentConfigs :
        /\ 1 <= paymentConfigs[id].min_sendable
        /\ paymentConfigs[id].min_sendable <= paymentConfigs[id].max_sendable

\* C35: every invoice the pay callback had the node create, and every payment
\* it stored, has an amount of at least 1 sat.
C35_NoZeroAmountInvoice ==
    /\ \A h \in DOMAIN invoices : invoices[h].value >= 1
    /\ \A id \in DOMAIN payments : payments[id].amount_sats >= 1

\* C36: every invoice and every payment was made by a pay callback whose
\* payment id had a stored configuration when the callback arrived.
C36_InvoiceOnlyForConfig ==
    /\ \A h \in DOMAIN invoices : preq[h].hadConfig
    /\ \A id \in DOMAIN payments : preq[id].hadConfig

\* C37: a withdraw callback whose invoice amount is outside the limits is
\* answered as a validation error, with status 400.
C37_OutOfRangeIsValidationError ==
    \A r \in WReqs :
        OutOfRangeReply(r) => wreq[r].status = errorHandler("ValidationError")
====
